---- MODULE Spec2Model ----
(***************************************************************************)
(* Two-party garbled-circuit session of mpc-hd: the garbler and evaluator  *)
(* drivers (garbler_fn / evaluator_fn), the protocol procedures Garbler    *)
(* and Evaluator (G1-G7 / E1-E7), the Chou-Orlandi OT batch (CO.Send /     *)
(* CO.Receive) and the sequence-numbered connection (p2p.Conn) over the    *)
(* relay.                                                                  *)
(*                                                                         *)
(* Scaling: labels are LabelBits wide instead of 128, the OT group is the  *)
(* additive group of integers modulo CurveOrder instead of P-256, and each *)
(* party's random source is one of MaxSeed+1 fixed streams.  The relay is  *)
(* taken to honour its message contract (Outbox answers a stub with the    *)
(* message stored under the same session, topic, src, dst and seq, or the  *)
(* call fails).                                                            *)
(***************************************************************************)
EXTENDS Integers, Sequences, FiniteSets, TLC

\* ------------------------------------------------------------------ bounds
\* Width of a label in bits (128 in the program).
LabelBits == 2
\* Each party's random source is one of the streams 0..MaxSeed.
MaxSeed == 2

\* Order of the OT group (curveParams.N of P-256 in the program).
CurveOrder == 5

LabelSpace == 2 ^ LabelBits
Labels == 0 .. (LabelSpace - 1)
Seeds == 0 .. MaxSeed

\* ------------------------------------------------------------ bit helpers
\* big.Int.Bit(i)
Bit(n, i) == (n \div (2 ^ i)) % 2

\* bitwise XOR of two labels
RECURSIVE XorBits(_, _, _)
XorBits(a, b, n) ==
    IF n = 0 THEN 0
    ELSE ((a + b) % 2) + 2 * XorBits(a \div 2, b \div 2, n - 1)

Xor(a, b) == XorBits(a, b, LabelBits)

\* the permutation bit of a label: its low-order bit
Perm(l) == l % 2

\* big.Int.SetBit(result, i, 1) on a result whose bit i is 0
SetBit(r, i) == IF Bit(r, i) = 1 THEN r ELSE r + 2 ^ i

\* the i-th word (i >= 0) of random stream `seed`
RandWord(seed, i) == (seed * seed + 5 * seed + 5 * i + 3 * seed * i + i * i * i + 1) % 64

\* ------------------------------------------------------------- errors
\* An error value is its root cause and the number of annotations wrapped
\* around it (errors.Wrap / errors.Wrapf); Nil is the nil error.
Nil == [cause |-> "nil", wraps |-> 0]
NewErr(c) == [cause |-> c, wraps |-> 0]
\* io.EOF, the sentinel value evaluator_fn compares against
EOF == NewErr("EOF")
\* errors.Wrap(err, msg): nil stays nil, otherwise a new, distinct error value
Wrap(e) == IF e = Nil THEN Nil ELSE [e EXCEPT !.wraps = @ + 1]
\* the errors a transport call of the messenger client can report
TransportErrs == {NewErr("EOF"), NewErr("timeout")}

\* ------------------------------------------------------------- circuits
\* A circuit: Inputs (the bit width of each input group), Gates (op, input
\* wires a and b, output wire c; wires are numbered from 0), NumWires,
\* Outputs (the bit width of each output field, covering the trailing
\* wires).
XorCirc ==
    [Inputs |-> <<1, 1>>,
     Gates |-> << [op |-> "XOR", a |-> 0, b |-> 1, c |-> 2] >>,
     NumWires |-> 3,
     Outputs |-> <<1>>]

MixCirc ==
    [Inputs |-> <<2, 1>>,
     Gates |-> << [op |-> "AND", a |-> 0, b |-> 2, c |-> 3],
                  [op |-> "XOR", a |-> 1, b |-> 2, c |-> 4],
                  [op |-> "OR", a |-> 3, b |-> 4, c |-> 5] >>,
     NumWires |-> 6,
     Outputs |-> <<1, 1>>]

WideCirc ==
    [Inputs |-> <<1, 2>>,
     Gates |-> << [op |-> "AND", a |-> 0, b |-> 1, c |-> 3],
                  [op |-> "XOR", a |-> 3, b |-> 2, c |-> 4] >>,
     NumWires |-> 5,
     Outputs |-> <<2>>]

\* a circuit for three parties
TrioCirc ==
    [Inputs |-> <<1, 1, 1>>,
     Gates |-> << [op |-> "XOR", a |-> 0, b |-> 1, c |-> 3],
                  [op |-> "XOR", a |-> 3, b |-> 2, c |-> 4] >>,
     NumWires |-> 5,
     Outputs |-> <<1>>]

Circuits == <<XorCirc, MixCirc, WideCirc, TrioCirc>>

NumGates(circ) == Len(circ.Gates)

RECURSIVE SumSeq(_)
SumSeq(s) == IF s = <<>> THEN 0 ELSE Head(s) + SumSeq(Tail(s))

\* circ.Outputs.Size(): the number of output wires
OutputsSize(circ) == SumSeq(circ.Outputs)

\* int(circ.Inputs[g].Type.Bits), g counted from 0
InputBits(circ, g) == circ.Inputs[g + 1]

\* the plaintext gate functions
GateOp(op, x, y) ==
    CASE op = "XOR" -> (x + y) % 2
      [] op = "AND" -> x * y
      [] op = "OR" -> IF x + y > 0 THEN 1 ELSE 0

\* the plaintext value of every wire (bits[w + 1] for wire w) on inputs
\* x (group 0) and y (group 1)
RECURSIVE PlainWires(_, _, _)
PlainWires(circ, bits, g) ==
    IF g > NumGates(circ) THEN bits
    ELSE LET gate == circ.Gates[g]
             v == GateOp(gate.op, bits[gate.a + 1], bits[gate.b + 1])
         IN PlainWires(circ, [bits EXCEPT ![gate.c + 1] = v], g + 1)

PlainInputs(circ, x, y) ==
    [w \in 1 .. circ.NumWires |->
        IF w <= InputBits(circ, 0) THEN Bit(x, w - 1)
        ELSE IF w <= InputBits(circ, 0) + InputBits(circ, 1)
             THEN Bit(y, w - 1 - InputBits(circ, 0))
             ELSE 0]

\* bit i of C(x, y): the plaintext value of output wire i
PlainOutputBit(circ, x, y, i) ==
    PlainWires(circ, PlainInputs(circ, x, y), 1)[circ.NumWires - OutputsSize(circ) + i + 1]

RECURSIVE PlainResultFrom(_, _, _, _)
PlainResultFrom(circ, x, y, i) ==
    IF i >= OutputsSize(circ) THEN 0
    ELSE PlainOutputBit(circ, x, y, i) * (2 ^ i) + PlainResultFrom(circ, x, y, i + 1)

\* C(x, y) as the integer whose bit i is output bit i
PlainResult(circ, x, y) == PlainResultFrom(circ, x, y, 0)

\* circ.Outputs.Split(result): the result integer cut into the output
\* fields, the first field taking the low-order bits
RECURSIVE SplitFrom(_, _)
SplitFrom(outs, r) ==
    IF outs = <<>> THEN <<>>
    ELSE <<r % (2 ^ Head(outs))>> \o SplitFrom(Tail(outs), r \div (2 ^ Head(outs)))

Split(circ, r) == SplitFrom(circ.Outputs, r)

\* getResult(result, circ.Outputs): Results(result, outputs)[0] as a byte
\* array, most significant first; a bit of the output stands for a byte
GetResult(circ, res) == [i \in 1 .. circ.Outputs[1] |-> Bit(res[1], circ.Outputs[1] - i)]

\* getResult or the drivers' reads val[0] and val[1] index out of range
ResultPanics(circ, res) ==
    \/ res = <<>>
    \/ Len(GetResult(circ, res)) = 0
    \/ GetResult(circ, res)[1] = 0 /\ Len(GetResult(circ, res)) < 2

\* errors.Newf("MPCL inner error: 0x%02x. MPCL file: %s", val[1], circ_abs)
MpclErr(code, file) ==
    [cause |-> "MPCL inner error", wraps |-> 0, code |-> code, file |-> file]

\* the discriminator taken from the last byte of the result
DiscriminateLastByte(file, res) ==
    LET val == GetResult(Circuits[file], res)
    IN IF ResultPanics(Circuits[file], res) THEN [err |-> Nil, val |-> <<>>]
       ELSE IF val[Len(val)] # 0 THEN [err |-> Nil, val |-> Tail(val)]
       ELSE [err |-> MpclErr(val[2], file), val |-> <<>>]

\* the drivers' rule on val := getResult(result, circ.Outputs): val[1:] and
\* no error when val[0] != 0, otherwise no payload and the MPCL error of
\* code val[1] for the circuit file
Discriminate(file, res) ==
    LET val == GetResult(Circuits[file], res)
    IN IF ResultPanics(Circuits[file], res) THEN [err |-> Nil, val |-> <<>>]
       ELSE IF val[1] # 0 THEN [err |-> Nil, val |-> Tail(val)]
       ELSE [err |-> MpclErr(val[2], file), val |-> <<>>]

\* ------------------------------------------------------------- labels
\* a label encoding that hands out the zero-label for both bits
LabelForBitZeroOnly(l0, delta, b) == l0

\* LabelForBit(L0, b) = L0 if b = 0 else L0 xor Delta
LabelForBit(l0, delta, b) == IF b = 0 THEN l0 ELSE Xor(l0, delta)

\* BitFromLabel(L0, L): the bit, or an error when L is neither label of the wire
BitFromLabel(l0, delta, l) ==
    IF l = l0 THEN [err |-> Nil, bit |-> 0]
    ELSE IF l = Xor(l0, delta) THEN [err |-> Nil, bit |-> 1]
    ELSE [err |-> NewErr("invalid label"), bit |-> 0]

\* H(k, La, Lb, g): the fixed-key hash that encrypts a gate row
H(k, la, lb, g) == (k + 3 * la + 5 * lb + 7 * g + la * lb + 1) % LabelSpace

\* -------------------------------------------------------------- garbling
\* the logical bit of a wire whose label carries permutation bit p
BitWithPerm(l0, p) == (p + Perm(l0)) % 2

\* the zero-label of a gate's output wire
GateOutL0(key, delta, wires, gate, g) ==
    LET a0 == wires[gate.a + 1]
        b0 == wires[gate.b + 1]
    IN IF gate.op = "XOR" THEN Xor(a0, b0)
       ELSE LET i == BitWithPerm(a0, 0)
                j == BitWithPerm(b0, 0)
                out == H(key, LabelForBit(a0, delta, i), LabelForBit(b0, delta, j), g)
            IN IF GateOp(gate.op, i, j) = 0 THEN out ELSE Xor(out, delta)

\* the encrypted rows of a gate, sorted by permutation index 1..3; none for XOR
GateRows(key, delta, wires, gate, g) ==
    IF gate.op = "XOR" THEN <<>>
    ELSE LET a0 == wires[gate.a + 1]
             b0 == wires[gate.b + 1]
             c0 == wires[gate.c + 1]
         IN [idx \in 1 .. 3 |->
                LET i == BitWithPerm(a0, idx \div 2)
                    j == BitWithPerm(b0, idx % 2)
                IN Xor(H(key, LabelForBit(a0, delta, i), LabelForBit(b0, delta, j), g),
                       LabelForBit(c0, delta, GateOp(gate.op, i, j)))]

RECURSIVE GarbleGates(_, _, _, _, _, _)
GarbleGates(circ, key, delta, wires, rows, g) ==
    IF g > NumGates(circ) THEN [Wires |-> wires, Gates |-> rows]
    ELSE LET gate == circ.Gates[g]
             w2 == [wires EXCEPT ![gate.c + 1] = GateOutL0(key, delta, wires, gate, g - 1)]
         IN GarbleGates(circ, key, delta, w2,
                        Append(rows, GateRows(key, delta, w2, gate, g - 1)), g + 1)

\* circ.Garble(rand, key): Delta with low bit 1, a uniform zero-label per
\* input wire, then the gates in topological order.  Wires[w + 1] is the
\* zero-label of wire w.
Garble(circ, seed, key) ==
    LET delta == 2 * (RandWord(seed, 1) % (LabelSpace \div 2)) + 1
        nin == InputBits(circ, 0) + InputBits(circ, 1)
        wires0 == [w \in 1 .. circ.NumWires |->
                      IF w <= nin THEN RandWord(seed, w + 1) % LabelSpace ELSE 0]
        gc == GarbleGates(circ, key, delta, wires0, <<>>, 1)
    IN [Wires |-> gc.Wires, Gates |-> gc.Gates, Delta |-> delta]

\* ------------------------------------------------------------ evaluation
\* the gate table has the shape the circuit needs
TableFits(circ, rows) ==
    /\ Len(rows) = NumGates(circ)
    /\ \A g \in 1 .. NumGates(circ) :
         Len(rows[g]) = IF circ.Gates[g].op = "XOR" THEN 0 ELSE 3

RECURSIVE EvalGates(_, _, _, _, _)
EvalGates(circ, key, wires, rows, g) ==
    IF g > NumGates(circ) THEN wires
    ELSE LET gate == circ.Gates[g]
             la == wires[gate.a + 1]
             lb == wires[gate.b + 1]
             idx == 2 * Perm(la) + Perm(lb)
             out == IF gate.op = "XOR" THEN Xor(la, lb)
                    ELSE IF idx = 0 THEN H(key, la, lb, g - 1)
                    ELSE Xor(H(key, la, lb, g - 1), rows[g][idx])
         IN EvalGates(circ, key, [wires EXCEPT ![gate.c + 1] = out], rows, g + 1)

\* circ.Eval(key, wires, garbled): the wire array with every gate output
\* filled in, or an error when the table does not fit the circuit
Eval(circ, key, wires, rows) ==
    IF TableFits(circ, rows)
    THEN [err |-> Nil, wires |-> EvalGates(circ, key, wires, rows, 1)]
    ELSE [err |-> NewErr("bad gate table"), wires |-> wires]


\* ------------------------------------------------- oblivious transfer (CO)
\* The curve is the additive group of integers modulo CurveOrder with base
\* point 1; 0 is the identity.
ScalarBaseMult(k) == k % CurveOrder
ScalarMult(pt, k) == (pt * k) % CurveOrder
PointAdd(p1, p2) == (p1 + p2) % CurveOrder
\* {x, -y}: the inverse of a point
PointNeg(pt) == (CurveOrder - pt) % CurveOrder
\* a received point is acceptable: on the curve and not the identity
ValidPoint(pt) == pt \in 1 .. (CurveOrder - 1)

\* rand.Int(rand, N): the i-th scalar of a stream, in [0, N)
RandScalar(seed, i) == RandWord(seed, i) % CurveOrder

\* deriveMask(x, y, idx): the key-derivation hash of a point and a counter
DeriveMask(pt, idx) == (3 * pt + 2 * idx + pt * pt + 1) % LabelSpace

\* COSender.NewTransfer(m0, m1) with the drawn scalar a
SenderNewTransfer(a, m0, m1) ==
    [m0 |-> m0, m1 |-> m1, a |-> a,
     A |-> ScalarBaseMult(a),
     AaInv |-> PointNeg(ScalarMult(ScalarBaseMult(a), a))]

\* COSenderXfer.ReceiveB(x, y) followed by E(): the pair (e0, e1), the masks
\* derived with counter 0
SenderReceiveB(xfer, B) ==
    LET b1 == ScalarMult(B, xfer.a)
        ba == PointAdd(b1, xfer.AaInv)
    IN [e0 |-> Xor(DeriveMask(b1, 0), xfer.m0),
        e1 |-> Xor(DeriveMask(ba, 0), xfer.m1)]

\* the sender's pair for transfer idx of a batch: the masks are derived
\* with the transfer's index as counter
SenderEncrypt(xfer, B, idx) ==
    LET b1 == ScalarMult(B, xfer.a)
        ba == PointAdd(b1, xfer.AaInv)
    IN [e0 |-> Xor(DeriveMask(b1, idx), xfer.m0),
        e1 |-> Xor(DeriveMask(ba, idx), xfer.m1)]

\* a defective ReceiveA that sends B = bG whatever the selection bit
ReceiverReceiveAIgnoresBit(bit, b, A) ==
    [bit |-> bit, b |-> b, B |-> (b % CurveOrder), As |-> ((A * b) % CurveOrder)]

\* a defective ReceiveA that sends the unblinded setup point for bit 1
ReceiverReceiveAUnblinded(bit, b, A) ==
    [bit |-> bit, b |-> b,
     B |-> IF bit # 0 THEN A ELSE (b % CurveOrder),
     As |-> ((A * b) % CurveOrder)]

\* COReceiverXfer.ReceiveA(x, y) of a transfer with selection bit and scalar b
ReceiverReceiveA(bit, b, A) ==
    [bit |-> bit, b |-> b,
     B |-> IF bit # 0 THEN PointAdd(ScalarBaseMult(b), A) ELSE ScalarBaseMult(b),
     As |-> ScalarMult(A, b)]

\* COReceiverXfer.ReceiveE(e0, e1): the selected message, the mask derived
\* with counter 0
ReceiverReceiveE(xfer, ct) ==
    IF xfer.bit # 0 THEN Xor(DeriveMask(xfer.As, 0), ct.e1)
    ELSE Xor(DeriveMask(xfer.As, 0), ct.e0)

\* the receiver's message of transfer idx of a batch
ReceiverDecrypt(xfer, ct, idx) ==
    IF xfer.bit # 0 THEN Xor(DeriveMask(xfer.As, idx), ct.e1)
    ELSE Xor(DeriveMask(xfer.As, idx), ct.e0)

\* GenerateCOSenderSetup(rand, curve): one scalar a and point A per batch; the
\* scalar is the word of the garbler's stream after those the garbling drew
GenerateCOSenderSetup(seed) ==
    LET x == SenderNewTransfer(RandScalar(seed, 8), 0, 0)
    IN [a |-> x.a, A |-> x.A, AaInv |-> x.AaInv]

\* BuildCOChoices(rand, curve, Ax, Ay, flags): one receiver transfer per
\* flag, and the ordered list of points B
BuildCOChoices(seed, A, flags) ==
    LET bundle == [i \in 1 .. Len(flags) |->
                      ReceiverReceiveA(flags[i], RandScalar(seed, i - 1), A)]
    IN IF ~ValidPoint(A)
       THEN [err |-> NewErr("invalid point"), bundle |-> <<>>, points |-> <<>>]
       ELSE [err |-> Nil, bundle |-> bundle,
             points |-> [i \in 1 .. Len(flags) |-> bundle[i].B]]

\* EncryptCOCiphertexts(curve, setup, points, wires): one pair (e0, e1) per
\* wire, encrypting (L0, L0 xor Delta)
EncryptCOCiphertexts(setup, points, wires, delta) ==
    IF Len(points) # Len(wires)
    THEN [err |-> NewErr("count mismatch"), ct |-> <<>>]
    ELSE IF \E i \in 1 .. Len(points) : ~ValidPoint(points[i])
    THEN [err |-> NewErr("invalid point"), ct |-> <<>>]
    ELSE [err |-> Nil,
          ct |-> [i \in 1 .. Len(wires) |->
                    SenderEncrypt([m0 |-> wires[i], m1 |-> Xor(wires[i], delta),
                                    a |-> setup.a, A |-> setup.A,
                                    AaInv |-> setup.AaInv],
                                   points[i], i - 1)]]

\* DecryptCOCiphertexts(curve, bundle, ciphertexts): the selected labels
DecryptCOCiphertexts(bundle, cts) ==
    IF Len(cts) # Len(bundle)
    THEN [err |-> NewErr("count mismatch"), labels |-> <<>>]
    ELSE [err |-> Nil,
          labels |-> [i \in 1 .. Len(bundle) |-> ReceiverDecrypt(bundle[i], cts[i], i - 1)]]

\* ------------------------------------------------------- defective variants
\* Variants of the program's operators, each with one plausible defect; the
\* properties at the end of the module tell the program from each of them.

\* Split forgotten: the result integer returned as a single value
GarblerResultUnsplit(circ, result) == <<result>>

\* the selection flags read from the high bit down
FlagsReversed(circ, inputs) ==
    [i \in 1 .. InputBits(circ, 1) |-> Bit(inputs, InputBits(circ, 1) - i)]

\* the output wires taken one too low
EvaluatorOutputWireShifted(circ, i) == circ.NumWires - OutputsSize(circ) + i - 1

\* the check for two input groups rejecting only a circuit with fewer
WrongPartiesBelowTwo(circ) == Len(circ.Inputs) < 2

\* the receive address numbered by the send counter
RecvTagBySendCounter(c, topic) ==
    [sid |-> c.sid, topic |-> topic, src |-> c.tu, dst |-> c.je, seq |-> c.nsend + 1]

\* the send address built before the counter is incremented
SendTagBeforeIncrement(c, topic) ==
    [sid |-> c.sid, topic |-> topic, src |-> c.je, dst |-> c.tu, seq |-> c.nsend]

\* the OT query checked for its offset only
QueryOkOffsetOnly(circ, query) == ~(query.Offset # InputBits(circ, 0))

\* the OT slice taken from wire 0
OtSliceFromZero(query) == [lo |-> 0, hi |-> query.Count]

\* the zero-label of every garbler input wire, whatever the input bit
GarblerInputLabelsZero(circ, garbled, inputs) ==
    [i \in 1 .. InputBits(circ, 0) |-> garbled.Wires[i]]

\* the driver's EOF exemption applied to the root cause of the error
EvaluatorFnResultByCause(file, err, res) ==
    IF err # Nil /\ err.cause # "EOF" THEN [err |-> Wrap(err), val |-> <<>>]
    ELSE Discriminate(file, res)

\* a receive that counts on the send counter as well
AfterRecvSharedCounter(c) == [c EXCEPT !.nrecv = @ + 1, !.nsend = @ + 1]

\* a DirectSend that leaves the send counter where it was
AfterSendKeepsCounter(c) == c

\* a Flush that counts as a send
ConnFlushCounts(c) == [err |-> Nil, conn |-> [c EXCEPT !.nsend = @ + 1]]

\* ------------------------------------------------------------ connection
Parties == {"G", "E"}
Peer(p) == IF p = "G" THEN "E" ELSE "G"
\* the session id both drivers are started with
SessionId == "dummy_session_id"

\* NewConn(isGarbler, hostport, sid): one relay connection opened, counters
\* at 0, (je, tu) by role; tx and rx are the messenger client's registered
\* sends and receives
NewConn(isGarbler) ==
    [sid |-> SessionId,
     je |-> IF isGarbler THEN 1 ELSE 2,
     tu |-> IF isGarbler THEN 2 ELSE 1,
     nsend |-> 0, nrecv |-> 0, opens |-> 1, closes |-> 0, tx |-> <<>>, rx |-> <<>>]

\* the connection object before NewConn has run
NoConn ==
    [sid |-> "", je |-> 0, tu |-> 0, nsend |-> 0, nrecv |-> 0, opens |-> 0,
     closes |-> 0, tx |-> <<>>, rx |-> <<>>]

\* the session id a driver is called with: the empty string asks NewConn
\* to have the relay make a new session
SidInputs == {"", SessionId}

\* how NewConn(isGarbler, hostport, sid) can end: with a connection, with
\* Connect failing, or, for an empty sid, with GrpcNewSessionEasy failing
NewConnOutcomes(sid) ==
    {"ok", "connect"} \cup (IF sid = "" THEN {"session"} ELSE {})

\* what is left when GrpcNewSessionEasy fails: NewConn returns (nil, err)
\* and the relay connection Connect opened stays with the messenger client
NewConnSessionFails == [NoConn EXCEPT !.opens = 1]

\* the address Conn.DirectSend hands to the messenger after c.nsend += 1
SendTag(c, topic) ==
    [sid |-> c.sid, topic |-> topic, src |-> c.je, dst |-> c.tu, seq |-> c.nsend + 1]

\* the address Conn.DirectRecv hands to the messenger after c.nrecv += 1
RecvTag(c, topic) ==
    [sid |-> c.sid, topic |-> topic, src |-> c.tu, dst |-> c.je, seq |-> c.nrecv + 1]

\* the counters after Conn.DirectSend / Conn.DirectRecv, success or failure
AfterSend(c) == [c EXCEPT !.nsend = @ + 1]
AfterRecv(c) == [c EXCEPT !.nrecv = @ + 1]

\* Conn.Close()
Close(c) == [c EXCEPT !.closes = @ + 1]

\* Conn.NeedSpace(count), Conn.Flush() and Conn.Fill(n): the error returned
\* and the connection afterwards
ConnNeedSpace(c, count) == [err |-> Nil, conn |-> c]
ConnFlush(c) == [err |-> Nil, conn |-> c]
ConnFill(c, n) == [err |-> Nil, conn |-> c]

\* Conn.Exchange(): the messenger's round returns merr; the error is
\* annotated into a local and nil is returned
ConnExchange(merr) == Nil

\* Conn.RegisterSend(snd, topic): c.nsend += 1, then the message is queued
\* under the send address
AfterRegisterSend(c, topic) ==
    [c EXCEPT !.nsend = @ + 1, !.tx = Append(@, SendTag(c, topic))]

\* Conn.RegisterRecv(rcv, topic): c.nrecv += 1, then the stub is queued
\* under the receive address
AfterRegisterRecv(c, topic) ==
    [c EXCEPT !.nrecv = @ + 1, !.rx = Append(@, RecvTag(c, topic))]

\* ------------------------------------------------------------------ state
VARIABLES
    cfg,    \* the session's inputs: each party's circuit file, input and random stream
    conn,   \* conn[p]: party p's connection object
    relay,  \* relay[p]: the messages of party p the relay has accepted, in order
    calls,  \* calls[p]: party p's DirectSend / DirectRecv calls so far, in order
    pc,     \* pc[p]: the step party p is about to take
    g,      \* the garbler's local variables
    e,      \* the evaluator's local variables
    ot,     \* one OT transfer run on its own: both parties' transfer objects
    rpc,    \* one call of the messenger client run on its own
    cgo     \* one call of an exported C function run on its own

vars == <<cfg, conn, relay, calls, pc, g, e, ot, rpc, cgo>>

\* no exported C function is run on its own
NoCgo == [step |-> "none"]

\* no messenger call is run on its own
NoRpc == [step |-> "none"]

\* no OT transfer is run on its own
NoOt == [step |-> "none"]

\* the circuit each party's loadCircuit yields from its circuit file
GCirc == Circuits[cfg.gCirc]
ECirc == Circuits[cfg.eCirc]

NoGarbled == [Wires |-> <<>>, Gates |-> <<>>, Delta |-> 0]
NoRet == [err |-> Nil, val |-> <<>>]

GInit ==
    [circ |-> 0, inputSizes |-> <<>>, key |-> 0, garbled |-> NoGarbled, garbles |-> 0,
     inputs |-> <<>>, query |-> [Offset |-> 0, Count |-> 0],
     otLo |-> 0, otHi |-> 0, otWires |-> <<>>,
     setup |-> [a |-> 0, A |-> 0, AaInv |-> 0], ct |-> <<>>,
     labels |-> <<>>, result |-> 0,
     returned |-> FALSE, gerr |-> Nil, gres |-> <<>>, ret |-> NoRet]

EInit ==
    [circ |-> 0, inputSizes |-> <<>>, key |-> 0, gates |-> <<>>, wires |-> <<>>,
     flags |-> <<>>, bundle |-> <<>>, evaluated |-> FALSE,
     labels |-> <<>>, result |-> 0,
     returned |-> FALSE, eerr |-> Nil, eres |-> <<>>, ret |-> NoRet]

Init ==
    /\ cfg \in {c \in [gCirc : 1 .. Len(Circuits), eCirc : 1 .. Len(Circuits),
                       gIn : 0 .. 3, eIn : 0 .. 3, gSeed : Seeds, eSeed : Seeds] :
                  /\ c.gIn < 2 ^ InputBits(Circuits[c.gCirc], 0)
                  /\ c.eIn < 2 ^ InputBits(Circuits[c.eCirc], 1)}
    /\ conn = [p \in Parties |-> NoConn]
    /\ relay = [p \in Parties |-> <<>>]
    /\ calls = [p \in Parties |-> <<>>]
    /\ pc = [p \in Parties |-> "NewConn"]
    /\ g = GInit
    /\ e = EInit
    /\ ot = NoOt
    /\ rpc = NoRpc
    /\ cgo = NoCgo

\* ------------------------------------------------------------- messenger
\* The outcomes of MessengerClient.DirectSend: posted, or a transport error
\* with the message accepted by the relay or not.
SendOutcomes ==
    {[err |-> Nil, posted |-> TRUE]} \cup
    {[err |-> x, posted |-> b] : x \in TransportErrs, b \in BOOLEAN}

\* Outbox: party p's stub `tag` matches a message the peer posted
HasMsg(p, tag) == \E i \in 1 .. Len(relay[Peer(p)]) : relay[Peer(p)][i].tag = tag
MsgVal(p, tag) ==
    relay[Peer(p)][CHOOSE i \in 1 .. Len(relay[Peer(p)]) : relay[Peer(p)][i].tag = tag].val

\* The outcomes of MessengerClient.DirectRecv: the matching message once it
\* is there, or a transport error (a timeout at the latest).
RecvOutcomes(p, tag) == (IF HasMsg(p, tag) THEN {Nil} ELSE {}) \cup TransportErrs

\* the error Conn.DirectSend / Conn.DirectRecv returns for a messenger
\* outcome: annotated once by the messenger client and once by Conn
ConnErr(err) == Wrap(Wrap(err))

\* the effect of one Conn.DirectSend(val, topic) of party p on the relay and
\* on the call log: the message goes out under the address Conn built
DoSend(p, topic, val, o) ==
    /\ relay' = [relay EXCEPT ![p] =
                    IF o.posted
                    THEN Append(@, [tag |-> SendTag(conn[p], topic), val |-> val])
                    ELSE @]
    /\ calls' = [calls EXCEPT ![p] =
                    Append(@, [op |-> "send", topic |-> topic,
                               tag |-> SendTag(conn[p], topic), err |-> o.err])]

\* the effect of one Conn.DirectRecv(&out, topic) of party p
DoRecv(p, topic, err) ==
    /\ calls' = [calls EXCEPT ![p] =
                    Append(@, [op |-> "recv", topic |-> topic,
                               tag |-> RecvTag(conn[p], topic), err |-> err])]
    /\ UNCHANGED relay

\* circuit.InputSizes(args): the bit widths of a party's own arguments
MyInputSizes(circ, group) == <<InputBits(circ, group)>>

\* the drivers' check after loadCircuit: len(circ.Inputs) != 2
WrongParties(circ) == Len(circ.Inputs) # 2

\* what can go wrong locally between the size exchange and the protocol:
\* loadCircuit fails, or Inputs[i].Parse(args) fails
LocalFaults == {"none", "load", "parse"}

\* ---------------------------------------------------------------- garbler
\* G3: the garbler's own input labels, one per wire of input group 0
GarblerInputLabels(circ, garbled, inputs) ==
    [i \in 1 .. InputBits(circ, 0) |->
        LabelForBit(garbled.Wires[i], garbled.Delta, Bit(inputs, i - 1))]

\* G4: the OT query names exactly the evaluator's input wires
QueryOk(circ, query) ==
    ~(query.Offset # InputBits(circ, 0) \/ query.Count # InputBits(circ, 1))

\* G5: the bounds of the slice garbled.Wires[lo:hi] handed to oti.Send
OtSlice(query) == [lo |-> query.Offset, hi |-> query.Offset + query.Count]

\* the Go slice s[lo:hi] of a sequence whose element i is s[i + 1]
Slice(s, lo, hi) == SubSeq(s, lo + 1, hi)

\* G7: the wire whose zero-label decodes result label i
GarblerOutputWire(circ, i) == circ.NumWires - OutputsSize(circ) + i

\* G7: the decoding loop over i in [0, Outputs.Size()); it panics when it
\* indexes past the end of the received list
RECURSIVE DecodeLabelsLenient(_, _, _, _, _)
\* a decoding loop that takes a label that is neither of the two as bit 0
DecodeLabelsLenient(circ, garbled, labels, i, result) ==
    IF i >= OutputsSize(circ) THEN [err |-> Nil, panic |-> FALSE, result |-> result]
    ELSE IF i + 1 > Len(labels) THEN [err |-> Nil, panic |-> TRUE, result |-> result]
    ELSE LET d == BitFromLabel(garbled.Wires[GarblerOutputWire(circ, i) + 1],
                               garbled.Delta, labels[i + 1])
         IN DecodeLabelsLenient(circ, garbled, labels, i + 1,
                                IF d.bit = 1 THEN SetBit(result, i) ELSE result)

RECURSIVE DecodeLabels(_, _, _, _, _)
DecodeLabels(circ, garbled, labels, i, result) ==
    IF i >= OutputsSize(circ) THEN [err |-> Nil, panic |-> FALSE, result |-> result]
    ELSE IF i + 1 > Len(labels) THEN [err |-> Nil, panic |-> TRUE, result |-> result]
    ELSE LET d == BitFromLabel(garbled.Wires[GarblerOutputWire(circ, i) + 1],
                               garbled.Delta, labels[i + 1])
         IN IF d.err # Nil THEN [err |-> Wrap(d.err), panic |-> FALSE, result |-> result]
            ELSE DecodeLabels(circ, garbled, labels, i + 1,
                              IF d.bit = 1 THEN SetBit(result, i) ELSE result)

\* what Garbler returns on success: circ.Outputs.Split(result)
GarblerResult(circ, result) == Split(circ, result)

\* garbler_fn after circuit.Garbler returned (err, result): the error is
\* annotated and returned, or the result goes through getResult and the
\* discriminator rule
GarblerFnResult(file, err, res) ==
    IF err # Nil THEN [err |-> Wrap(err), val |-> <<>>]
    ELSE Discriminate(file, res)

\* garbler_fn panics while it reads the result
GarblerFnPanics(file, err, res) == err = Nil /\ ResultPanics(Circuits[file], res)

\* Garbler returns (res, err) to garbler_fn, which returns in turn
GarblerReturns(gl, err, res) ==
    [gl EXCEPT !.returned = TRUE, !.gerr = err, !.gres = res,
               !.ret = GarblerFnResult(gl.circ, err, res)]

\* garbler_fn returns an error of its own before Garbler is called
GarblerFnFails(gl, err) == [gl EXCEPT !.ret = [err |-> Wrap(err), val |-> <<>>]]

\* garbler_fn: NewConn(true, hostport, sid), with the deferred Close armed
G_NewConn ==
    /\ pc["G"] = "NewConn"
    /\ \E sid \in SidInputs : \E o \in NewConnOutcomes(sid) :
         IF o = "ok"
         THEN /\ conn' = [conn EXCEPT !["G"] = NewConn(TRUE)]
              /\ pc' = [pc EXCEPT !["G"] = "SendSizes"]
              /\ g' = g
         ELSE /\ conn' = [conn EXCEPT !["G"] =
                             IF o = "session" THEN NewConnSessionFails ELSE NoConn]
              /\ pc' = [pc EXCEPT !["G"] = "Done"]
              /\ g' = GarblerFnFails(g, Wrap(NewErr(o)))
    /\ UNCHANGED <<cgo, rpc, ot, cfg, relay, calls, e>>

\* a defective variant of G_SendSizes: the error of the send is dropped and
\* the driver goes on to its receive
G_SendSizesUnchecked ==
    /\ pc["G"] = "SendSizes"
    /\ \E o \in SendOutcomes :
         /\ DoSend("G", "input sizes", MyInputSizes(GCirc, 0), o)
         /\ conn' = [conn EXCEPT !["G"] = AfterSend(conn["G"])]
         /\ pc' = [pc EXCEPT !["G"] = "RecvSizes"]
         /\ g' = [g EXCEPT !.inputSizes = <<MyInputSizes(GCirc, 0), <<>>>>]
    /\ UNCHANGED <<cgo, rpc, ot, cfg, e>>

\* garbler_fn: InputSizes(args), DirectSend(myInputSizes, "input sizes")
G_SendSizes ==
    /\ pc["G"] = "SendSizes"
    /\ \E o \in SendOutcomes :
         LET sizes == MyInputSizes(GCirc, 0)
             c1 == AfterSend(conn["G"])
         IN /\ DoSend("G", "input sizes", sizes, o)
            /\ IF o.err = Nil
               THEN /\ conn' = [conn EXCEPT !["G"] = c1]
                    /\ pc' = [pc EXCEPT !["G"] = "RecvSizes"]
                    /\ g' = [g EXCEPT !.inputSizes = <<sizes, <<>>>>]
               ELSE /\ conn' = [conn EXCEPT !["G"] = Close(c1)]
                    /\ pc' = [pc EXCEPT !["G"] = "Done"]
                    /\ g' = GarblerFnFails(g, ConnErr(o.err))
    /\ UNCHANGED <<cgo, rpc, ot, cfg, e>>

\* garbler_fn: DirectRecv(&peerInputSizes, "input sizes"), loadCircuit, the
\* check for two input groups, Inputs[0].Parse(args)
G_RecvSizes ==
    /\ pc["G"] = "RecvSizes"
    /\ LET tag == RecvTag(conn["G"], "input sizes")
           c1 == AfterRecv(conn["G"])
       IN \E err \in RecvOutcomes("G", tag), fault \in LocalFaults :
            /\ DoRecv("G", tag.topic, err)
            /\ err # Nil => fault = "none"
            /\ IF err # Nil
               THEN /\ g' = GarblerFnFails(g, ConnErr(err))
                    /\ pc' = [pc EXCEPT !["G"] = "Done"]
                    /\ conn' = [conn EXCEPT !["G"] = Close(c1)]
               ELSE LET peer == MsgVal("G", tag)
                        g1 == [g EXCEPT !.inputSizes = [@ EXCEPT ![1] = peer],
                                        !.circ = IF fault = "load" THEN 0 ELSE cfg.gCirc]
                    IN IF fault = "load"
                       THEN /\ g' = GarblerFnFails(g1, NewErr("load"))
                            /\ pc' = [pc EXCEPT !["G"] = "Done"]
                            /\ conn' = [conn EXCEPT !["G"] = Close(c1)]
                       ELSE IF WrongParties(GCirc)
                       THEN /\ g' = [g1 EXCEPT !.ret = [err |-> NewErr("parties"),
                                                        val |-> <<>>]]
                            /\ pc' = [pc EXCEPT !["G"] = "Done"]
                            /\ conn' = [conn EXCEPT !["G"] = Close(c1)]
                       ELSE IF fault = "parse"
                       THEN /\ g' = GarblerFnFails(g1, NewErr("parse"))
                            /\ pc' = [pc EXCEPT !["G"] = "Done"]
                            /\ conn' = [conn EXCEPT !["G"] = Close(c1)]
                       ELSE /\ g' = g1
                            /\ pc' = [pc EXCEPT !["G"] = "G1"]
                            /\ conn' = [conn EXCEPT !["G"] = c1]
    /\ UNCHANGED <<cgo, rpc, ot, cfg, e>>

\* a step of Garbler that ends in DirectSend(val, topic): on success go to
\* `next` with locals g1; on failure Garbler returns the annotated error
GarblerSend(topic, val, g1, next) ==
    \E o \in SendOutcomes :
      LET c1 == AfterSend(conn["G"])
      IN /\ DoSend("G", topic, val, o)
         /\ IF o.err = Nil
            THEN /\ g' = g1
                 /\ pc' = [pc EXCEPT !["G"] = next]
                 /\ conn' = [conn EXCEPT !["G"] = c1]
            ELSE /\ g' = GarblerReturns(g1, Wrap(ConnErr(o.err)), <<>>)
                 /\ pc' = [pc EXCEPT !["G"] = "Done"]
                 /\ conn' = [conn EXCEPT !["G"] = Close(c1)]

\* Garbler: rand.Read(key), circ.Garble(rand, key), then
\* G1: DirectSend(key, "ephemeral key")
G1_SendKey ==
    /\ pc["G"] = "G1"
    /\ LET key == RandWord(cfg.gSeed, 0) % LabelSpace
           gc == Garble(Circuits[g.circ], cfg.gSeed, key)
       IN GarblerSend("ephemeral key", key,
                      [g EXCEPT !.key = key, !.garbled = gc, !.garbles = @ + 1], "G2")
    /\ UNCHANGED <<cgo, rpc, ot, cfg, e>>

\* a defective G2 that garbles the circuit once more before it sends
G2_SendGatesGarblesAgain ==
    /\ pc["G"] = "G2"
    /\ GarblerSend("garbled gates", g.garbled.Gates,
                   [g EXCEPT !.garbled = Garble(Circuits[g.circ], cfg.gSeed, g.key),
                             !.garbles = @ + 1], "G3")
    /\ UNCHANGED <<cgo, rpc, ot, cfg, e>>

\* G2: DirectSend(garbled.Gates, "garbled gates")
G2_SendGates ==
    /\ pc["G"] = "G2"
    /\ GarblerSend("garbled gates", g.garbled.Gates, g, "G3")
    /\ UNCHANGED <<cgo, rpc, ot, cfg, e>>

\* G3: DirectSend(wires, "inputs"); the error is annotated and dropped, and
\* Garbler goes on to G4 whatever the outcome
\* a defective G3 that sends the input labels under another topic
G3_SendInputsMistagged ==
    /\ pc["G"] = "G3"
    /\ \E o \in SendOutcomes :
         LET wires == GarblerInputLabels(Circuits[g.circ], g.garbled, cfg.gIn)
         IN /\ DoSend("G", "input", wires, o)
            /\ g' = [g EXCEPT !.inputs = wires]
            /\ pc' = [pc EXCEPT !["G"] = "G4"]
            /\ conn' = [conn EXCEPT !["G"] = AfterSend(conn["G"])]
    /\ UNCHANGED <<cgo, rpc, ot, cfg, e>>

G3_SendInputs ==
    /\ pc["G"] = "G3"
    /\ \E o \in SendOutcomes :
         LET wires == GarblerInputLabels(Circuits[g.circ], g.garbled, cfg.gIn)
         IN /\ DoSend("G", "inputs", wires, o)
            /\ g' = [g EXCEPT !.inputs = wires]
            /\ pc' = [pc EXCEPT !["G"] = "G4"]
            /\ conn' = [conn EXCEPT !["G"] = AfterSend(conn["G"])]
    /\ UNCHANGED <<cgo, rpc, ot, cfg, e>>

\* a step of Garbler that starts with DirectRecv(&out, topic) failing
GarblerRecvFails(tag, err) ==
    /\ DoRecv("G", tag.topic, err)
    /\ g' = GarblerReturns(g, Wrap(ConnErr(err)), <<>>)
    /\ pc' = [pc EXCEPT !["G"] = "Done"]
    /\ conn' = [conn EXCEPT !["G"] = Close(AfterRecv(conn["G"]))]

\* G4: DirectRecv(&query, "ot query") and the check of offset and count
G4_RecvQuery ==
    /\ pc["G"] = "G4"
    /\ LET tag == RecvTag(conn["G"], "ot query")
       IN \E err \in RecvOutcomes("G", tag) :
            IF err # Nil THEN GarblerRecvFails(tag, err)
            ELSE LET query == MsgVal("G", tag)
                     g1 == [g EXCEPT !.query = query]
                 IN /\ DoRecv("G", tag.topic, Nil)
                    /\ IF QueryOk(Circuits[g.circ], query)
                       THEN /\ g' = g1
                            /\ pc' = [pc EXCEPT !["G"] = "G5a"]
                            /\ conn' = [conn EXCEPT !["G"] = AfterRecv(conn["G"])]
                       ELSE /\ g' = GarblerReturns(g1, NewErr("peer can't OT wires"), <<>>)
                            /\ pc' = [pc EXCEPT !["G"] = "Done"]
                            /\ conn' = [conn EXCEPT !["G"] = Close(AfterRecv(conn["G"]))]
    /\ UNCHANGED <<cgo, rpc, ot, cfg, e>>

\* G5, CO.Send: GenerateCOSenderSetup, DirectSend(setup point, "setup.Ax,Ay")
G5_SendSetup ==
    /\ pc["G"] = "G5a"
    /\ LET sl == OtSlice(g.query)
           setup == GenerateCOSenderSetup(cfg.gSeed)
       IN GarblerSend("setup.Ax,Ay", setup.A,
                      [g EXCEPT !.otLo = sl.lo, !.otHi = sl.hi,
                                !.otWires = Slice(g.garbled.Wires, sl.lo, sl.hi),
                                !.setup = setup], "G5b")
    /\ UNCHANGED <<cgo, rpc, ot, cfg, e>>

\* G5, CO.Send: DirectRecv(&points, "co choices"), EncryptCOCiphertexts
G5_RecvChoices ==
    /\ pc["G"] = "G5b"
    /\ LET tag == RecvTag(conn["G"], "co choices")
       IN \E err \in RecvOutcomes("G", tag) :
            IF err # Nil THEN GarblerRecvFails(tag, err)
            ELSE LET points == MsgVal("G", tag)
                     enc == EncryptCOCiphertexts(g.setup, points, g.otWires, g.garbled.Delta)
                 IN /\ DoRecv("G", tag.topic, Nil)
                    /\ IF enc.err = Nil
                       THEN /\ g' = [g EXCEPT !.ct = enc.ct]
                            /\ pc' = [pc EXCEPT !["G"] = "G5c"]
                            /\ conn' = [conn EXCEPT !["G"] = AfterRecv(conn["G"])]
                       ELSE /\ g' = GarblerReturns(g, Wrap(enc.err), <<>>)
                            /\ pc' = [pc EXCEPT !["G"] = "Done"]
                            /\ conn' = [conn EXCEPT !["G"] = Close(AfterRecv(conn["G"]))]
    /\ UNCHANGED <<cgo, rpc, ot, cfg, e>>

\* a defective CO.Send that sends the ciphertext pairs one message per wire
G5_SendCiphertextsPerWire ==
    /\ pc["G"] = "G5c"
    /\ IF Len(g.ct) > 1
       THEN GarblerSend("ot ciphertexts", <<Head(g.ct)>>, [g EXCEPT !.ct = Tail(@)], "G5c")
       ELSE GarblerSend("ot ciphertexts", g.ct, g, "G6")
    /\ UNCHANGED <<cgo, rpc, ot, cfg, e>>

\* G5, CO.Send: DirectSend(&ct, "ot ciphertexts")
G5_SendCiphertexts ==
    /\ pc["G"] = "G5c"
    /\ GarblerSend("ot ciphertexts", g.ct, g, "G6")
    /\ UNCHANGED <<cgo, rpc, ot, cfg, e>>

\* G6: DirectRecv(&labels, "result labels")
G6_RecvResultLabels ==
    /\ pc["G"] = "G6"
    /\ LET tag == RecvTag(conn["G"], "result labels")
       IN \E err \in RecvOutcomes("G", tag) :
            IF err # Nil THEN GarblerRecvFails(tag, err)
            ELSE /\ DoRecv("G", tag.topic, Nil)
                 /\ g' = [g EXCEPT !.labels = MsgVal("G", tag)]
                 /\ pc' = [pc EXCEPT !["G"] = "G7"]
                 /\ conn' = [conn EXCEPT !["G"] = AfterRecv(conn["G"])]
    /\ UNCHANGED <<cgo, rpc, ot, cfg, e>>

\* G7: decode the result labels, DirectSend(result, "result"), return
\* circ.Outputs.Split(result)
G7_SendResult ==
    /\ pc["G"] = "G7"
    /\ LET d == DecodeLabels(Circuits[g.circ], g.garbled, g.labels, 0, 0)
       IN IF d.panic
          THEN /\ pc' = [pc EXCEPT !["G"] = "Panic"]
               /\ conn' = [conn EXCEPT !["G"] = Close(conn["G"])]
               /\ UNCHANGED <<relay, calls, g>>
          ELSE IF d.err # Nil
          THEN /\ g' = GarblerReturns(g, d.err, <<>>)
               /\ pc' = [pc EXCEPT !["G"] = "Done"]
               /\ conn' = [conn EXCEPT !["G"] = Close(conn["G"])]
               /\ UNCHANGED <<relay, calls>>
          ELSE \E o \in SendOutcomes :
                 LET c1 == AfterSend(conn["G"])
                     g1 == [g EXCEPT !.result = d.result]
                     res == GarblerResult(Circuits[g.circ], d.result)
                 IN /\ DoSend("G", "result", d.result, o)
                    /\ pc' = [pc EXCEPT !["G"] =
                                IF GarblerFnPanics(g.circ, o.err, res)
                                THEN "Panic" ELSE "Done"]
                    /\ conn' = [conn EXCEPT !["G"] = Close(c1)]
                    /\ g' = IF o.err = Nil
                            THEN GarblerReturns(g1, Nil, res)
                            ELSE GarblerReturns(g1, Wrap(ConnErr(o.err)), <<>>)
    /\ UNCHANGED <<cgo, rpc, ot, cfg, e>>

\* -------------------------------------------------------------- evaluator
\* E3: the received input labels followed by NumWires - len(wires) zero labels
PadWires(circ, wires) == wires \o [i \in 1 .. (circ.NumWires - Len(wires)) |-> 0]

\* E4: the OT query {Offset, Count}
OtQuery(circ) == [Offset |-> InputBits(circ, 0), Count |-> InputBits(circ, 1)]

\* the selection flags: bit i of the evaluator's input, for each wire of group 1
Flags(circ, inputs) == [i \in 1 .. InputBits(circ, 1) |-> Bit(inputs, i - 1)]

\* a copy that starts at the first wire slot instead of at the slice
CopyIntoFromZero(wires, start, labels) ==
    [w \in 1 .. Len(wires) |-> IF w <= Len(labels) THEN labels[w] ELSE wires[w]]

\* E5: copy(result, labels) into the slice wires[start:end]
CopyInto(wires, start, labels) ==
    [w \in 1 .. Len(wires) |->
        IF w > start /\ w <= start + Len(labels) THEN labels[w - start] ELSE wires[w]]

\* E6: the wire whose label is sent as result label i
EvaluatorOutputWire(circ, i) == circ.NumWires - OutputsSize(circ) + i

\* E6: the labels of the trailing output wires
ResultLabels(circ, wires) ==
    [i \in 1 .. OutputsSize(circ) |-> wires[EvaluatorOutputWire(circ, i - 1) + 1]]

\* what Evaluator returns on success: circ.Outputs.Split(&result)
EvaluatorResult(circ, result) == Split(circ, result)

\* evaluator_fn after circuit.Evaluator returned (err, result): an error
\* other than the value io.EOF is annotated and returned, or the result goes
\* through getResult and the discriminator rule
EvaluatorFnResult(file, err, res) ==
    IF err # Nil /\ err # EOF THEN [err |-> Wrap(err), val |-> <<>>]
    ELSE Discriminate(file, res)

\* evaluator_fn panics while it reads the result
EvaluatorFnPanics(file, err, res) ==
    (err = Nil \/ err = EOF) /\ ResultPanics(Circuits[file], res)

\* Evaluator returns (res, err) to evaluator_fn, which returns in turn
EvaluatorReturns(el, err, res) ==
    [el EXCEPT !.returned = TRUE, !.eerr = err, !.eres = res,
               !.ret = EvaluatorFnResult(el.circ, err, res)]

\* evaluator_fn returns an error of its own before Evaluator is called
EvaluatorFnFails(el, err) == [el EXCEPT !.ret = [err |-> Wrap(err), val |-> <<>>]]

\* evaluator_fn calls conn.Close() itself and once more through its defer
CloseTwice(c) == Close(Close(c))

\* evaluator_fn: NewConn(false, hostport, sid), with the deferred Close armed
E_NewConn ==
    /\ pc["E"] = "NewConn"
    /\ \E sid \in SidInputs : \E o \in NewConnOutcomes(sid) :
         IF o = "ok"
         THEN /\ conn' = [conn EXCEPT !["E"] = NewConn(FALSE)]
              /\ pc' = [pc EXCEPT !["E"] = "SendSizes"]
              /\ e' = e
         ELSE /\ conn' = [conn EXCEPT !["E"] =
                             IF o = "session" THEN NewConnSessionFails ELSE NoConn]
              /\ pc' = [pc EXCEPT !["E"] = "Done"]
              /\ e' = EvaluatorFnFails(e, Wrap(NewErr(o)))
    /\ UNCHANGED <<cgo, rpc, ot, cfg, relay, calls, g>>

\* evaluator_fn: InputSizes(args), DirectSend(myInputSizes, "input sizes")
E_SendSizes ==
    /\ pc["E"] = "SendSizes"
    /\ \E o \in SendOutcomes :
         LET sizes == MyInputSizes(ECirc, 1)
             c1 == AfterSend(conn["E"])
         IN /\ DoSend("E", "input sizes", sizes, o)
            /\ IF o.err = Nil
               THEN /\ conn' = [conn EXCEPT !["E"] = c1]
                    /\ pc' = [pc EXCEPT !["E"] = "RecvSizes"]
                    /\ e' = [e EXCEPT !.inputSizes = <<<<>>, sizes>>]
               ELSE /\ conn' = [conn EXCEPT !["E"] = Close(c1)]
                    /\ pc' = [pc EXCEPT !["E"] = "Done"]
                    /\ e' = EvaluatorFnFails(e, ConnErr(o.err))
    /\ UNCHANGED <<cgo, rpc, ot, cfg, g>>

\* evaluator_fn: DirectRecv(&peerInputSizes, "input sizes"), loadCircuit
\* unless the peer's list is empty, the check for two input groups,
\* Inputs[1].Parse(args)
E_RecvSizes ==
    /\ pc["E"] = "RecvSizes"
    /\ LET tag == RecvTag(conn["E"], "input sizes")
           c1 == AfterRecv(conn["E"])
       IN \E err \in RecvOutcomes("E", tag), fault \in LocalFaults :
            /\ DoRecv("E", tag.topic, err)
            /\ err # Nil => fault = "none"
            /\ IF err # Nil
               THEN /\ e' = EvaluatorFnFails(e, ConnErr(err))
                    /\ pc' = [pc EXCEPT !["E"] = "Done"]
                    /\ conn' = [conn EXCEPT !["E"] = Close(c1)]
               ELSE LET peer == MsgVal("E", tag)
                        loads == peer # <<>>
                        e1 == [e EXCEPT !.inputSizes = [@ EXCEPT ![1] = peer],
                                        !.circ = IF loads /\ fault # "load"
                                                 THEN cfg.eCirc ELSE 0]
                    IN IF loads /\ fault = "load"
                       THEN /\ e' = EvaluatorFnFails(e1, NewErr("load"))
                            /\ pc' = [pc EXCEPT !["E"] = "Done"]
                            /\ conn' = [conn EXCEPT !["E"] = CloseTwice(c1)]
                       ELSE IF ~loads
                       THEN /\ e' = e1
                            /\ pc' = [pc EXCEPT !["E"] = "Panic"]
                            /\ conn' = [conn EXCEPT !["E"] = Close(c1)]
                       ELSE IF WrongParties(ECirc)
                       THEN /\ e' = [e1 EXCEPT !.ret = [err |-> NewErr("parties"),
                                                        val |-> <<>>]]
                            /\ pc' = [pc EXCEPT !["E"] = "Done"]
                            /\ conn' = [conn EXCEPT !["E"] = Close(c1)]
                       ELSE IF fault = "parse"
                       THEN /\ e' = EvaluatorFnFails(e1, NewErr("parse"))
                            /\ pc' = [pc EXCEPT !["E"] = "Done"]
                            /\ conn' = [conn EXCEPT !["E"] = CloseTwice(c1)]
                       ELSE /\ e' = e1
                            /\ pc' = [pc EXCEPT !["E"] = "E1"]
                            /\ conn' = [conn EXCEPT !["E"] = c1]
    /\ UNCHANGED <<cgo, rpc, ot, cfg, g>>

\* a step of Evaluator whose DirectRecv(&out, topic) fails
EvaluatorRecvFails(tag, err) ==
    /\ DoRecv("E", tag.topic, err)
    /\ e' = EvaluatorReturns(e, Wrap(ConnErr(err)), <<>>)
    /\ pc' = [pc EXCEPT !["E"] = "Done"]
    /\ conn' = [conn EXCEPT !["E"] = CloseTwice(AfterRecv(conn["E"]))]

\* a receiving step of Evaluator that goes on when the receive failed
EvaluatorRecvIgnoresError(topic, next, field) ==
    LET tag == RecvTag(conn["E"], topic)
    IN \E err \in RecvOutcomes("E", tag) :
         /\ DoRecv("E", tag.topic, err)
         /\ e' = IF err = Nil THEN [e EXCEPT ![field] = MsgVal("E", tag)] ELSE e
         /\ pc' = [pc EXCEPT !["E"] = next]
         /\ conn' = [conn EXCEPT !["E"] = AfterRecv(conn["E"])]

\* a step of Evaluator that receives topic and goes on to `next` with the
\* locals e1(val)
EvaluatorRecv(topic, next, field) ==
    LET tag == RecvTag(conn["E"], topic)
    IN \E err \in RecvOutcomes("E", tag) :
         IF err # Nil THEN EvaluatorRecvFails(tag, err)
         ELSE /\ DoRecv("E", tag.topic, Nil)
              /\ e' = [e EXCEPT ![field] = MsgVal("E", tag)]
              /\ pc' = [pc EXCEPT !["E"] = next]
              /\ conn' = [conn EXCEPT !["E"] = AfterRecv(conn["E"])]

\* a step of Evaluator that ends in DirectSend(val, topic), with the locals
\* e0 at the call and e1 after its success
EvaluatorSend(topic, val, e0, e1, next) ==
    \E o \in SendOutcomes :
      LET c1 == AfterSend(conn["E"])
      IN /\ DoSend("E", topic, val, o)
         /\ IF o.err = Nil
            THEN /\ e' = e1
                 /\ pc' = [pc EXCEPT !["E"] = next]
                 /\ conn' = [conn EXCEPT !["E"] = c1]
            ELSE /\ e' = EvaluatorReturns(e0, Wrap(ConnErr(o.err)), <<>>)
                 /\ pc' = [pc EXCEPT !["E"] = "Done"]
                 /\ conn' = [conn EXCEPT !["E"] = CloseTwice(c1)]

\* E1: DirectRecv(&key, "ephemeral key")
E1_RecvKey ==
    /\ pc["E"] = "E1"
    /\ EvaluatorRecv("ephemeral key", "E2", "key")
    /\ UNCHANGED <<cgo, rpc, ot, cfg, g>>

\* E2: DirectRecv(&garbled, "garbled gates")
E2_RecvGates ==
    /\ pc["E"] = "E2"
    /\ EvaluatorRecv("garbled gates", "E3", "gates")
    /\ UNCHANGED <<cgo, rpc, ot, cfg, g>>

\* E3: DirectRecv(&wires, "inputs"), then pad the wire array to NumWires; a
\* negative pad length panics, and the driver's deferred Close runs
E3_RecvInputs ==
    /\ pc["E"] = "E3"
    /\ LET tag == RecvTag(conn["E"], "inputs")
       IN \E err \in RecvOutcomes("E", tag) :
            IF err # Nil THEN EvaluatorRecvFails(tag, err)
            ELSE /\ DoRecv("E", tag.topic, Nil)
                 /\ IF Len(MsgVal("E", tag)) > Circuits[e.circ].NumWires
                    THEN /\ pc' = [pc EXCEPT !["E"] = "Panic"]
                         /\ conn' = [conn EXCEPT !["E"] = Close(AfterRecv(conn["E"]))]
                         /\ e' = e
                    ELSE /\ pc' = [pc EXCEPT !["E"] = "E4"]
                         /\ conn' = [conn EXCEPT !["E"] = AfterRecv(conn["E"])]
                         /\ e' = [e EXCEPT !.wires = PadWires(Circuits[e.circ],
                                                              MsgVal("E", tag))]
    /\ UNCHANGED <<cgo, rpc, ot, cfg, g>>

\* a defective E4 that sends the query a second time before it goes on
E4_SendQueryTwice ==
    /\ pc["E"] = "E4"
    /\ EvaluatorSend("ot query", OtQuery(Circuits[e.circ]), e,
                     [e EXCEPT !.flags = Flags(Circuits[e.circ], cfg.eIn)],
                     IF \E n \in 1 .. Len(calls["E"]) : calls["E"][n].topic = "ot query"
                     THEN "E5a" ELSE "E4")
    /\ UNCHANGED <<cgo, rpc, ot, cfg, g>>

\* E4: DirectSend(&query, "ot query"), then the selection flags
E4_SendQuery ==
    /\ pc["E"] = "E4"
    /\ EvaluatorSend("ot query", OtQuery(Circuits[e.circ]), e,
                     [e EXCEPT !.flags = Flags(Circuits[e.circ], cfg.eIn)], "E5a")
    /\ UNCHANGED <<cgo, rpc, ot, cfg, g>>

\* E5, CO.Receive: DirectRecv(rcv, "setup.Ax,Ay"), BuildCOChoices
E5_RecvSetup ==
    /\ pc["E"] = "E5a"
    /\ LET tag == RecvTag(conn["E"], "setup.Ax,Ay")
       IN \E err \in RecvOutcomes("E", tag) :
            IF err # Nil THEN EvaluatorRecvFails(tag, err)
            ELSE LET ch == BuildCOChoices(cfg.eSeed, MsgVal("E", tag), e.flags)
                 IN /\ DoRecv("E", tag.topic, Nil)
                    /\ IF ch.err = Nil
                       THEN /\ e' = [e EXCEPT !.bundle = ch.bundle]
                            /\ pc' = [pc EXCEPT !["E"] = "E5b"]
                            /\ conn' = [conn EXCEPT !["E"] = AfterRecv(conn["E"])]
                       ELSE /\ e' = EvaluatorReturns(e, Wrap(ch.err), <<>>)
                            /\ pc' = [pc EXCEPT !["E"] = "Done"]
                            /\ conn' = [conn EXCEPT !["E"] = CloseTwice(AfterRecv(conn["E"]))]
    /\ UNCHANGED <<cgo, rpc, ot, cfg, g>>

\* E5, CO.Receive: DirectSend(points, "co choices")
E5_SendChoices ==
    /\ pc["E"] = "E5b"
    /\ EvaluatorSend("co choices", [i \in 1 .. Len(e.bundle) |-> e.bundle[i].B], e, e, "E5c")
    /\ UNCHANGED <<cgo, rpc, ot, cfg, g>>

\* E5, CO.Receive: DirectRecv(&ciphertexts, "ot ciphertexts"),
\* DecryptCOCiphertexts, the count check and copy(result, labels) into
\* wires[start:end]
E5_RecvCiphertexts ==
    /\ pc["E"] = "E5c"
    /\ LET tag == RecvTag(conn["E"], "ot ciphertexts")
           circ == Circuits[e.circ]
           start == InputBits(circ, 0)
           end == start + InputBits(circ, 1)
       IN \E err \in RecvOutcomes("E", tag) :
            IF err # Nil THEN EvaluatorRecvFails(tag, err)
            ELSE LET dec == DecryptCOCiphertexts(e.bundle, MsgVal("E", tag))
                     oterr == IF dec.err # Nil THEN Wrap(dec.err)
                              ELSE IF Len(dec.labels) # end - start
                              THEN NewErr("label count mismatch")
                              ELSE Nil
                 IN /\ DoRecv("E", tag.topic, Nil)
                    /\ IF oterr = Nil
                       THEN /\ e' = [e EXCEPT !.wires = CopyInto(e.wires, start, dec.labels)]
                            /\ pc' = [pc EXCEPT !["E"] = "E6"]
                            /\ conn' = [conn EXCEPT !["E"] = AfterRecv(conn["E"])]
                       ELSE /\ e' = EvaluatorReturns(e, oterr, <<>>)
                            /\ pc' = [pc EXCEPT !["E"] = "Done"]
                            /\ conn' = [conn EXCEPT !["E"] = CloseTwice(AfterRecv(conn["E"]))]
    /\ UNCHANGED <<cgo, rpc, ot, cfg, g>>

\* circ.Eval(key, wires, garbled), then E6: DirectSend(&labels, "result labels")
E6_SendResultLabels ==
    /\ pc["E"] = "E6"
    /\ LET circ == Circuits[e.circ]
           ev == Eval(circ, e.key, e.wires, e.gates)
           e1 == [e EXCEPT !.wires = ev.wires, !.evaluated = TRUE]
           labels == ResultLabels(circ, ev.wires)
       IN IF ev.err # Nil
          THEN /\ e' = EvaluatorReturns(e, Wrap(ev.err), <<>>)
               /\ pc' = [pc EXCEPT !["E"] = "Done"]
               /\ conn' = [conn EXCEPT !["E"] = CloseTwice(conn["E"])]
               /\ UNCHANGED <<relay, calls>>
          ELSE EvaluatorSend("result labels", labels, e1,
                             [e1 EXCEPT !.labels = labels], "E7")
    /\ UNCHANGED <<cgo, rpc, ot, cfg, g>>

\* E7: DirectRecv(&result, "result"), return circ.Outputs.Split(&result)
E7_RecvResult ==
    /\ pc["E"] = "E7"
    /\ LET tag == RecvTag(conn["E"], "result")
       IN \E err \in RecvOutcomes("E", tag) :
            IF err # Nil THEN EvaluatorRecvFails(tag, err)
            ELSE LET r == MsgVal("E", tag)
                     res == EvaluatorResult(Circuits[e.circ], r)
                 IN /\ DoRecv("E", tag.topic, Nil)
                    /\ e' = EvaluatorReturns([e EXCEPT !.result = r], Nil, res)
                    /\ pc' = [pc EXCEPT !["E"] =
                                IF EvaluatorFnPanics(e.circ, Nil, res)
                                THEN "Panic" ELSE "Done"]
                    /\ conn' = [conn EXCEPT !["E"] = CloseTwice(AfterRecv(conn["E"]))]
    /\ UNCHANGED <<cgo, rpc, ot, cfg, g>>

\* ------------------------------------------------------------------- main
\* buf_gt, the result main expects: a payload of one byte
BufGt == <<1>>

\* the exit code of main once the driver has come back with (buf, err):
\* log.Fatal(err) exits with 1, a result other than buf_gt is answered by
\* log.Fatal("Wrong implementation") and exits with 1 as well
MainExit(ret) ==
    IF ret.err # Nil THEN 1
    ELSE IF ret.val = BufGt THEN 0
    ELSE 1

\* the exit code of the Go runtime after a panic that nothing recovers
PanicExit == 2

\* the exit code of party p's executable once its driver is over
ExitCode(p) ==
    IF pc[p] = "Panic" THEN PanicExit
    ELSE MainExit(IF p = "G" THEN g.ret ELSE e.ret)

\* ------------------------------------------------------------ the session
Next ==
    \/ G_NewConn \/ G_SendSizes \/ G_RecvSizes
    \/ G1_SendKey \/ G2_SendGates \/ G3_SendInputs \/ G4_RecvQuery
    \/ G5_SendSetup \/ G5_RecvChoices \/ G5_SendCiphertexts
    \/ G6_RecvResultLabels \/ G7_SendResult
    \/ E_NewConn \/ E_SendSizes \/ E_RecvSizes
    \/ E1_RecvKey \/ E2_RecvGates \/ E3_RecvInputs \/ E4_SendQuery
    \/ E5_RecvSetup \/ E5_SendChoices \/ E5_RecvCiphertexts
    \/ E6_SendResultLabels \/ E7_RecvResult

Spec == Init /\ [][Next]_vars


\* ------------------------------------------------- the connection on its own
\* A client drives one party's connection through its operations in any
\* order, at most MaxCalls of them; the peer has already posted a message
\* for each of the sequence numbers 1 .. MaxCalls.
MaxCalls == 3
ConnTopics == {"input sizes", "result"}

\* the peer's message number k, sent on its own connection
PeerMessage(p, topic, k) ==
    [tag |-> SendTag([NewConn(Peer(p) = "G") EXCEPT !.nsend = k - 1], topic), val |-> k]

ConnInit ==
    /\ cfg = [gCirc |-> 1, eCirc |-> 1, gIn |-> 0, eIn |-> 0, gSeed |-> 0, eSeed |-> 0]
    /\ conn = [p \in Parties |-> NoConn]
    /\ \E p \in Parties, topic \in ConnTopics :
         /\ relay = [q \in Parties |->
                       IF q = p THEN <<>>
                       ELSE [k \in 1 .. MaxCalls |-> PeerMessage(p, topic, k)]]
         /\ pc = [q \in Parties |-> IF q = p THEN "NewConn" ELSE "Done"]
    /\ calls = [p \in Parties |-> <<>>]
    /\ g = GInit
    /\ e = EInit
    /\ ot = NoOt
    /\ rpc = NoRpc
    /\ cgo = NoCgo

\* the client may make another call on party p's connection
CanCall(p) == pc[p] = "Conn" /\ Len(calls[p]) < MaxCalls

Conn_NewConn ==
    \E p \in Parties :
      /\ pc[p] = "NewConn"
      /\ conn' = [conn EXCEPT ![p] = NewConn(p = "G")]
      /\ pc' = [pc EXCEPT ![p] = "Conn"]
      /\ UNCHANGED <<cgo, rpc, ot, cfg, relay, calls, g, e>>

\* a DirectSend that takes its increment back when the call fails
Conn_DirectSendRollsBack ==
    \E p \in Parties, topic \in ConnTopics, o \in SendOutcomes :
      /\ CanCall(p)
      /\ DoSend(p, topic, 0, o)
      /\ conn' = [conn EXCEPT ![p] = IF o.err = Nil THEN AfterSend(conn[p]) ELSE conn[p]]
      /\ UNCHANGED <<cgo, rpc, ot, cfg, pc, g, e>>

Conn_DirectSend ==
    \E p \in Parties, topic \in ConnTopics, o \in SendOutcomes :
      /\ CanCall(p)
      /\ DoSend(p, topic, 0, o)
      /\ conn' = [conn EXCEPT ![p] = AfterSend(conn[p])]
      /\ UNCHANGED <<cgo, rpc, ot, cfg, pc, g, e>>

Conn_DirectRecv ==
    \E p \in Parties, topic \in ConnTopics :
      \E err \in RecvOutcomes(p, RecvTag(conn[p], topic)) :
        /\ CanCall(p)
        /\ DoRecv(p, topic, err)
        /\ conn' = [conn EXCEPT ![p] = AfterRecv(conn[p])]
        /\ UNCHANGED <<cgo, rpc, ot, cfg, pc, g, e>>

Conn_RegisterSend ==
    \E p \in Parties, topic \in ConnTopics :
      /\ CanCall(p)
      /\ conn' = [conn EXCEPT ![p] = AfterRegisterSend(conn[p], topic)]
      /\ calls' = [calls EXCEPT ![p] =
                      Append(@, [op |-> "regsend", topic |-> topic,
                                 tag |-> conn'[p].tx[Len(conn'[p].tx)], err |-> Nil])]
      /\ UNCHANGED <<cgo, rpc, ot, cfg, relay, pc, g, e>>

Conn_RegisterRecv ==
    \E p \in Parties, topic \in ConnTopics :
      /\ CanCall(p)
      /\ conn' = [conn EXCEPT ![p] = AfterRegisterRecv(conn[p], topic)]
      /\ calls' = [calls EXCEPT ![p] =
                      Append(@, [op |-> "regrecv", topic |-> topic,
                                 tag |-> conn'[p].rx[Len(conn'[p].rx)], err |-> Nil])]
      /\ UNCHANGED <<cgo, rpc, ot, cfg, relay, pc, g, e>>

\* the arguments NeedSpace and Fill are called with
BufferCounts == {0, 1}
\* the log entry of a call that names no message
NoTag == [sid |-> "", topic |-> "", src |-> 0, dst |-> 0, seq |-> 0]

Conn_NeedSpace ==
    \E p \in Parties, count \in BufferCounts :
      /\ CanCall(p)
      /\ conn' = [conn EXCEPT ![p] = ConnNeedSpace(conn[p], count).conn]
      /\ calls' = [calls EXCEPT ![p] =
                      Append(@, [op |-> "needspace", topic |-> "", tag |-> NoTag,
                                 err |-> ConnNeedSpace(conn[p], count).err,
                                 arg |-> count])]
      /\ UNCHANGED <<cgo, rpc, ot, cfg, relay, pc, g, e>>

Conn_Flush ==
    \E p \in Parties :
      /\ CanCall(p)
      /\ conn' = [conn EXCEPT ![p] = ConnFlush(conn[p]).conn]
      /\ calls' = [calls EXCEPT ![p] =
                      Append(@, [op |-> "flush", topic |-> "", tag |-> NoTag,
                                 err |-> ConnFlush(conn[p]).err, arg |-> 0])]
      /\ UNCHANGED <<cgo, rpc, ot, cfg, relay, pc, g, e>>

Conn_Fill ==
    \E p \in Parties, n \in BufferCounts :
      /\ CanCall(p)
      /\ conn' = [conn EXCEPT ![p] = ConnFill(conn[p], n).conn]
      /\ calls' = [calls EXCEPT ![p] =
                      Append(@, [op |-> "fill", topic |-> "", tag |-> NoTag,
                                 err |-> ConnFill(conn[p], n).err, arg |-> n])]
      /\ UNCHANGED <<cgo, rpc, ot, cfg, relay, pc, g, e>>

\* the outcomes of the messenger's exchange round: done, or failed or timed out
ExchangeOutcomes == {Nil} \cup TransportErrs

Conn_Exchange ==
    \E p \in Parties, merr \in ExchangeOutcomes :
      /\ CanCall(p)
      /\ calls' = [calls EXCEPT ![p] =
                      Append(@, [op |-> "exchange", topic |-> "", tag |-> NoTag,
                                 err |-> ConnExchange(merr), merr |-> merr])]
      /\ UNCHANGED <<cgo, rpc, ot, cfg, conn, relay, pc, g, e>>

ConnNext ==
    \/ Conn_NewConn \/ Conn_DirectSend \/ Conn_DirectRecv
    \/ Conn_RegisterSend \/ Conn_RegisterRecv
    \/ Conn_NeedSpace \/ Conn_Flush \/ Conn_Fill
    \/ Conn_Exchange

ConnSpec == ConnInit /\ [][ConnNext]_vars

\* ------------------------------------------------ one OT transfer on its own
\* A single CO transfer between a COSender and a COReceiver: the sender's
\* messages m0 and m1, the scalars a and b drawn by rand.Int and the
\* selection bit are the inputs; each point is delivered as sent, or replaced
\* on the way by the identity or by a point that is not on the curve.
Scalars == 0 .. (CurveOrder - 1)
\* the encoding (0, 0) of the identity
Identity == 0
\* a pair (x, y) that is not on the curve
OffCurve == CurveOrder
\* IsOnCurve or the identity: the points the curve operations work on
Operable(pt) == pt \in Scalars
\* what can arrive in place of a point
Delivered(pt) == {pt, Identity, OffCurve}

OtInit ==
    /\ cfg = [gCirc |-> 1, eCirc |-> 1, gIn |-> 0, eIn |-> 0, gSeed |-> 0, eSeed |-> 0]
    /\ conn = [p \in Parties |-> NoConn]
    /\ relay = [p \in Parties |-> <<>>]
    /\ calls = [p \in Parties |-> <<>>]
    /\ pc = [p \in Parties |-> "Done"]
    /\ g = GInit
    /\ e = EInit
    /\ \E m0 \in Labels, m1 \in Labels, a \in Scalars, b \in Scalars, bit \in {0, 1} :
         ot = [step |-> "NewTransfer", m0 |-> m0, m1 |-> m1, a |-> a, b |-> b,
               bit |-> bit]
    /\ rpc = NoRpc
    /\ cgo = NoCgo

\* COSender.NewTransfer(m0, m1) and COReceiver.NewTransfer(bit)
Ot_NewTransfer ==
    /\ ot.step = "NewTransfer"
    /\ ot' = [step |-> "ReceiveA", m0 |-> ot.m0, m1 |-> ot.m1, a |-> ot.a, b |-> ot.b,
              bit |-> ot.bit,
              sender |-> SenderNewTransfer(ot.a, ot.m0, ot.m1)]
    /\ UNCHANGED <<cgo, rpc, cfg, conn, relay, calls, pc, g, e>>

\* COReceiverXfer.ReceiveA(x, y) on the point that arrives for A; the curve
\* operations on a point that is not on the curve panic or compute with some
\* point in its place
Ot_ReceiveA ==
    /\ ot.step = "ReceiveA"
    /\ \E A \in Delivered(ot.sender.A) :
         IF Operable(A)
         THEN ot' = [ot EXCEPT !.step = "ReceiveB"] @@
                    [gotA |-> A, receiver |-> ReceiverReceiveA(ot.bit, ot.b, A)]
         ELSE \/ ot' = [ot EXCEPT !.step = "Panic"] @@ [gotA |-> A]
              \/ \E pt \in Scalars :
                   ot' = [ot EXCEPT !.step = "ReceiveB"] @@
                         [gotA |-> A, receiver |-> ReceiverReceiveA(ot.bit, ot.b, pt)]
    /\ UNCHANGED <<cgo, rpc, cfg, conn, relay, calls, pc, g, e>>

\* COSenderXfer.ReceiveB(x, y) on the point that arrives for B, then E()
Ot_ReceiveB ==
    /\ ot.step = "ReceiveB"
    /\ \E B \in Delivered(ot.receiver.B) :
         IF Operable(B)
         THEN ot' = [ot EXCEPT !.step = "ReceiveE"] @@
                    [gotB |-> B, ct |-> SenderReceiveB(ot.sender, B)]
         ELSE \/ ot' = [ot EXCEPT !.step = "Panic"] @@ [gotB |-> B]
              \/ \E pt \in Scalars :
                   ot' = [ot EXCEPT !.step = "ReceiveE"] @@
                         [gotB |-> B, ct |-> SenderReceiveB(ot.sender, pt)]
    /\ UNCHANGED <<cgo, rpc, cfg, conn, relay, calls, pc, g, e>>

\* COReceiverXfer.ReceiveE(e0, e1)
Ot_ReceiveE ==
    /\ ot.step = "ReceiveE"
    /\ ot' = [ot EXCEPT !.step = "Done"] @@ [out |-> ReceiverReceiveE(ot.receiver, ot.ct)]
    /\ UNCHANGED <<cgo, rpc, cfg, conn, relay, calls, pc, g, e>>

OtNext == Ot_NewTransfer \/ Ot_ReceiveA \/ Ot_ReceiveB \/ Ot_ReceiveE

OtSpec == OtInit /\ [][OtNext]_vars

\* ------------------------------------------ one messenger receive on its own
\* MessengerClient.DirectRecv(out, sid, topic, src, dst, seq) against a relay
\* whose Outbox call fails or answers with any number of messages, each
\* holding bytes that gob can decode into out or not.
MaxValues == 2
\* the objects a caller can hold or be sent
Objects == 0 .. 2
\* the bytes of a message: a gob encoding of an object, or bytes that are not
Payloads == {[ok |-> b, obj |-> v] : b \in BOOLEAN, v \in Objects}
\* gob.NewDecoder(buf).Decode(out)
GobDecode(buf, out) ==
    IF buf.ok THEN [err |-> Nil, out |-> buf.obj]
    ELSE [err |-> NewErr("gob"), out |-> out]
RECURSIVE SeqsUpTo(_, _)
SeqsUpTo(S, n) ==
    IF n = 0 THEN {<<>>}
    ELSE SeqsUpTo(S, n - 1) \cup
         {Append(q, x) : q \in {r \in SeqsUpTo(S, n - 1) : Len(r) = n - 1}, x \in S}
\* the answers of stub.Outbox: an error, or a VecMessage
OutboxResponses ==
    {[err |-> x, Values |-> <<>>] : x \in TransportErrs} \cup
    {[err |-> Nil, Values |-> v] : v \in SeqsUpTo(Payloads, MaxValues)}

\* MessengerClient.DirectRecv on the Outbox answer resp: the error it
\* returns and the caller's object afterwards
MessengerDirectRecv(resp, out) ==
    IF resp.err # Nil THEN [err |-> Wrap(resp.err), out |-> out]
    ELSE IF Len(resp.Values) # 1 THEN [err |-> Wrap(resp.err), out |-> out]
    ELSE LET d == GobDecode(resp.Values[1], out)
         IN [err |-> Wrap(d.err), out |-> d.out]

\* Conn.DirectRecv(rcv, topic) around it
ConnDirectRecv(resp, out) ==
    LET r == MessengerDirectRecv(resp, out)
    IN [err |-> Wrap(r.err), out |-> r.out]

RecvInit ==
    /\ cfg = [gCirc |-> 1, eCirc |-> 1, gIn |-> 0, eIn |-> 0, gSeed |-> 0, eSeed |-> 0]
    /\ conn = [p \in Parties |-> NoConn]
    /\ relay = [p \in Parties |-> <<>>]
    /\ calls = [p \in Parties |-> <<>>]
    /\ pc = [p \in Parties |-> "Done"]
    /\ g = GInit
    /\ e = EInit
    /\ ot = NoOt
    /\ cgo = NoCgo
    /\ \E resp \in OutboxResponses, out \in Objects :
         rpc = [step |-> "DirectRecv", resp |-> resp, out |-> out]

\* the call and what its caller holds when it returns: the caller takes
\* its object as received when the error is nil
Rpc_DirectRecv ==
    /\ rpc.step = "DirectRecv"
    /\ LET r == ConnDirectRecv(rpc.resp, rpc.out)
       IN rpc' = [step |-> "Returned", resp |-> rpc.resp, before |-> rpc.out,
                  out |-> r.out, err |-> r.err, received |-> (r.err = Nil)]
    /\ UNCHANGED <<cgo, ot, cfg, conn, relay, calls, pc, g, e>>

RecvNext == Rpc_DirectRecv

RecvSpec == RecvInit /\ [][RecvNext]_vars

\* ------------------------------------------ Garbler's G6 and G7 on their own
\* Garbler stands before G6 after an undisturbed run of G1 to G5, and the
\* relay holds a "result labels" message of any content for it.
MaxLabels == 2
\* the connection of the garbler after its six sends and three receives
ConnAtG6 == [NewConn(TRUE) EXCEPT !.nsend = 6, !.nrecv = 3]

DecodeInit ==
    /\ cfg \in {c \in [gCirc : 1 .. Len(Circuits), eCirc : 1 .. Len(Circuits),
                       gIn : 0 .. 3, eIn : {0}, gSeed : Seeds, eSeed : {0}] :
                  /\ c.eCirc = c.gCirc
                  /\ ~WrongParties(Circuits[c.gCirc])
                  /\ c.gIn < 2 ^ InputBits(Circuits[c.gCirc], 0)}
    /\ conn = [p \in Parties |-> IF p = "G" THEN ConnAtG6 ELSE NoConn]
    /\ \E labels \in SeqsUpTo(Labels, MaxLabels) :
         relay = [p \in Parties |->
                    IF p = "E"
                    THEN <<[tag |-> RecvTag(ConnAtG6, "result labels"), val |-> labels]>>
                    ELSE <<>>]
    /\ calls = [p \in Parties |-> <<>>]
    /\ pc = [p \in Parties |-> IF p = "G" THEN "G6" ELSE "Done"]
    /\ g = LET key == RandWord(cfg.gSeed, 0) % LabelSpace
           IN [GInit EXCEPT !.circ = cfg.gCirc, !.key = key,
                            !.garbled = Garble(Circuits[cfg.gCirc], cfg.gSeed, key),
                            !.garbles = 1]
    /\ e = EInit
    /\ ot = NoOt
    /\ rpc = NoRpc
    /\ cgo = NoCgo

DecodeNext == G6_RecvResultLabels \/ G7_SendResult

DecodeSpec == DecodeInit /\ [][DecodeNext]_vars

\* ------------------------------- the end of CO.Receive on its own
\* CO.Receive stands before its receive of "ot ciphertexts", called with any
\* list of flags (of the length of the result slice or not) on the wire
\* array as E3 left it; the relay holds the sender's ciphertexts for the
\* choices, complete or cut short by one.
MaxFlags == 2
\* the connection of the evaluator after its three sends and five receives
ConnAtE5c == [NewConn(FALSE) EXCEPT !.nsend = 3, !.nrecv = 5]
\* the sender's ciphertexts for a bundle of choices: the wires from the
\* query's offset on, as many as there are choices
CiphertextsFor(circ, gc, setup, bundle) ==
    EncryptCOCiphertexts(setup, [i \in 1 .. Len(bundle) |-> bundle[i].B],
                         [i \in 1 .. Len(bundle) |->
                            gc.Wires[((InputBits(circ, 0) + i - 1) % circ.NumWires) + 1]],
                         gc.Delta).ct
\* a list without its last element
DropLast(q) == IF q = <<>> THEN q ELSE SubSeq(q, 1, Len(q) - 1)

ReceiveInit ==
    /\ cfg \in {c \in [gCirc : 1 .. Len(Circuits), eCirc : 1 .. Len(Circuits),
                       gIn : 0 .. 3, eIn : {0}, gSeed : Seeds, eSeed : Seeds] :
                  /\ c.eCirc = c.gCirc
                  /\ ~WrongParties(Circuits[c.gCirc])
                  /\ c.gIn < 2 ^ InputBits(Circuits[c.gCirc], 0)
                  /\ ValidPoint(GenerateCOSenderSetup(c.gSeed).A)}
    /\ conn = [p \in Parties |-> IF p = "E" THEN ConnAtE5c ELSE NoConn]
    /\ calls = [p \in Parties |-> <<>>]
    /\ pc = [p \in Parties |-> IF p = "E" THEN "E5c" ELSE "Done"]
    /\ g = GInit
    /\ ot = NoOt
    /\ rpc = NoRpc
    /\ cgo = NoCgo
    /\ \E flags \in SeqsUpTo({0, 1}, MaxFlags), short \in BOOLEAN :
         LET circ == Circuits[cfg.eCirc]
             key == RandWord(cfg.gSeed, 0) % LabelSpace
             gc == Garble(circ, cfg.gSeed, key)
             setup == GenerateCOSenderSetup(cfg.gSeed)
             bundle == BuildCOChoices(cfg.eSeed, setup.A, flags).bundle
             cts == CiphertextsFor(circ, gc, setup, bundle)
         IN /\ ~(short /\ flags = <<>>)
            /\ e = [EInit EXCEPT !.circ = cfg.eCirc, !.key = key, !.gates = gc.Gates,
                                 !.wires = PadWires(circ, GarblerInputLabels(circ, gc, cfg.gIn)),
                                 !.flags = flags, !.bundle = bundle]
            /\ relay = [p \in Parties |->
                          IF p = "G"
                          THEN <<[tag |-> RecvTag(ConnAtE5c, "ot ciphertexts"),
                                  val |-> IF short THEN DropLast(cts) ELSE cts]>>
                          ELSE <<>>]

ReceiveNext == E5_RecvCiphertexts

ReceiveSpec == ReceiveInit /\ [][ReceiveNext]_vars

\* ------------------------- evaluator_fn's receive of the sizes on its own
\* evaluator_fn has sent its own input sizes and stands before its receive;
\* the relay holds an "input sizes" message of the peer with any list of
\* widths, the empty list included.
MaxSizes == 2
\* the connection of the evaluator after its first send
ConnAtRecvSizes == [NewConn(FALSE) EXCEPT !.nsend = 1]

SizesInit ==
    /\ cfg \in {c \in [gCirc : 1 .. Len(Circuits), eCirc : 1 .. Len(Circuits),
                       gIn : {0}, eIn : 0 .. 3, gSeed : {0}, eSeed : Seeds] :
                  /\ c.gCirc = c.eCirc
                  /\ c.eIn < 2 ^ InputBits(Circuits[c.eCirc], 1)}
    /\ conn = [p \in Parties |-> IF p = "E" THEN ConnAtRecvSizes ELSE NoConn]
    /\ \E sizes \in SeqsUpTo(1 .. 2, MaxSizes) :
         relay = [p \in Parties |->
                    IF p = "G"
                    THEN <<[tag |-> RecvTag(ConnAtRecvSizes, "input sizes"), val |-> sizes]>>
                    ELSE <<[tag |-> SendTag(NewConn(FALSE), "input sizes"),
                            val |-> MyInputSizes(ECirc, 1)]>>]
    /\ calls = [p \in Parties |->
                  IF p = "E"
                  THEN <<[op |-> "send", topic |-> "input sizes",
                          tag |-> SendTag(NewConn(FALSE), "input sizes"), err |-> Nil]>>
                  ELSE <<>>]
    /\ pc = [p \in Parties |-> IF p = "E" THEN "RecvSizes" ELSE "Done"]
    /\ g = GInit
    /\ e = [EInit EXCEPT !.inputSizes = <<<<>>, MyInputSizes(ECirc, 1)>>]
    /\ ot = NoOt
    /\ rpc = NoRpc
    /\ cgo = NoCgo

SizesNext == E_RecvSizes

SizesSpec == SizesInit /\ [][SizesNext]_vars

\* ------------------------------------- the exported C functions on their own
\* the null pointer, and the value the caller's variable held before the call
NullPtr == [kind |-> "null", bytes |-> <<>>]
CallerPtr == [kind |-> "caller", bytes |-> <<>>]
\* what the caller's result_ptr and result_len variables hold before the call
CallerOuts == {[ptr |-> q, len |-> n] : q \in {NullPtr, CallerPtr}, n \in {-1, 3}}
\* C.malloc(n): a block of n bytes, or NULL (also allowed for n = 0)
MallocOutcomes == {"block", "null"}
\* what Garbler or Evaluator hands to its driver: an error and a result
ProtocolErrs == {Nil} \cup TransportErrs
ProtocolResults == {<<r>> : r \in 0 .. 3}

\* c_garbler_fn with *result_len written ahead of the error check
c_garbler_fn_len_first(file, err, res, out, malloc) ==
    LET ret == GarblerFnResult(file, err, res)
    IN IF ret.err # Nil THEN [code |-> -1, ptr |-> out.ptr, len |-> Len(ret.val)]
       ELSE IF malloc = "null"
       THEN [code |-> -1, ptr |-> NullPtr, len |-> Len(ret.val)]
       ELSE [code |-> 0, ptr |-> [kind |-> "heap", bytes |-> ret.val],
             len |-> Len(ret.val)]

\* c_evaluator_fn once evaluator_fn came back with (buf, err): -1 on an
\* error; otherwise *result_len = len(buf), *result_ptr = malloc(len(buf)),
\* -1 when that is NULL, else the bytes are copied and 0 is returned
c_evaluator_fn(file, err, res, out, malloc) ==
    LET ret == EvaluatorFnResult(file, err, res)
    IN IF ret.err # Nil THEN [code |-> -1, ptr |-> out.ptr, len |-> out.len]
       ELSE IF malloc = "null"
       THEN [code |-> -1, ptr |-> NullPtr, len |-> Len(ret.val)]
       ELSE [code |-> 0, ptr |-> [kind |-> "heap", bytes |-> ret.val],
             len |-> Len(ret.val)]

\* c_garbler_fn once garbler_fn came back with (buf, err): the same steps
c_garbler_fn(file, err, res, out, malloc) ==
    LET ret == GarblerFnResult(file, err, res)
    IN IF ret.err # Nil THEN [code |-> -1, ptr |-> out.ptr, len |-> out.len]
       ELSE IF malloc = "null"
       THEN [code |-> -1, ptr |-> NullPtr, len |-> Len(ret.val)]
       ELSE [code |-> 0, ptr |-> [kind |-> "heap", bytes |-> ret.val],
             len |-> Len(ret.val)]

\* the driver behind an exported function, and whether it panics
DriverOf(fn, file, err, res) ==
    IF fn = "c_garbler_fn" THEN GarblerFnResult(file, err, res)
    ELSE EvaluatorFnResult(file, err, res)
DriverPanics(fn, file, err, res) ==
    IF fn = "c_garbler_fn" THEN GarblerFnPanics(file, err, res)
    ELSE EvaluatorFnPanics(file, err, res)

CgoInit ==
    /\ cfg = [gCirc |-> 1, eCirc |-> 1, gIn |-> 0, eIn |-> 0, gSeed |-> 0, eSeed |-> 0]
    /\ conn = [p \in Parties |-> NoConn]
    /\ relay = [p \in Parties |-> <<>>]
    /\ calls = [p \in Parties |-> <<>>]
    /\ pc = [p \in Parties |-> "Done"]
    /\ g = GInit
    /\ e = EInit
    /\ ot = NoOt
    /\ rpc = NoRpc
    /\ \E fn \in {"c_garbler_fn", "c_evaluator_fn"}, file \in DOMAIN Circuits,
          err \in ProtocolErrs, res \in ProtocolResults, out \in CallerOuts :
         cgo = [step |-> "Called", fn |-> fn, file |-> file, err |-> err,
                res |-> res, before |-> out, out |-> out]

\* the driver panics inside the exported function: nothing returns
Cgo_Panic ==
    /\ cgo.step = "Called"
    /\ DriverPanics(cgo.fn, cgo.file, cgo.err, cgo.res)
    /\ cgo' = [cgo EXCEPT !.step = "Panic"]
    /\ UNCHANGED <<rpc, ot, cfg, conn, relay, calls, pc, g, e>>

\* the exported function returns its code, the caller's two variables as
\* it leaves them
Cgo_Return ==
    /\ cgo.step = "Called"
    /\ ~DriverPanics(cgo.fn, cgo.file, cgo.err, cgo.res)
    /\ \E malloc \in MallocOutcomes :
         LET r == IF cgo.fn = "c_garbler_fn"
                  THEN c_garbler_fn(cgo.file, cgo.err, cgo.res, cgo.before, malloc)
                  ELSE c_evaluator_fn(cgo.file, cgo.err, cgo.res, cgo.before, malloc)
         IN cgo' = [step |-> "Returned", fn |-> cgo.fn, file |-> cgo.file,
                    err |-> cgo.err, res |-> cgo.res, before |-> cgo.before,
                    out |-> [ptr |-> r.ptr, len |-> r.len], code |-> r.code,
                    driver |-> DriverOf(cgo.fn, cgo.file, cgo.err, cgo.res)]
    /\ UNCHANGED <<rpc, ot, cfg, conn, relay, calls, pc, g, e>>

CgoNext == Cgo_Panic \/ Cgo_Return

CgoSpec == CgoInit /\ [][CgoNext]_vars

\* =============================================================== properties
\* the calls of one kind in party p's call log, in order
CallsOf(p, ops) == SelectSeq(calls[p], LAMBDA c : c.op \in ops)
\* some call of party p has this topic
Called(p, topic) == \E n \in 1 .. Len(calls[p]) : calls[p][n].topic = topic
\* Garbler and Evaluator have both returned a nil error
BothReturnedNil == g.returned /\ e.returned /\ g.gerr = Nil /\ e.eerr = Nil
\* the messages of party p the relay holds under a topic
Posted(p, topic) == {n \in 1 .. Len(relay[p]) : relay[p][n].tag.topic = topic}

\* C1: when Garbler and Evaluator both return without error, the garbler
\* posted one integer under "result", the evaluator returns the split of that
\* integer, the garbler returns the split of the same integer, and the two
\* output lists are equal.
C1_SameOutputs ==
    BothReturnedNil =>
        \E n \in Posted("G", "result") :
            /\ e.eres = Split(Circuits[e.circ], relay["G"][n].val)
            /\ g.gres = Split(Circuits[g.circ], relay["G"][n].val)
            /\ e.eres = g.gres

\* a session of the two-output circuit in which both parties return <<1, 1>>
C1_Witness == BothReturnedNil /\ g.circ = 2 /\ g.gres = <<1, 1>> /\ e.eres = <<1, 1>>

\* C2: a session that completes without error yields C(x, y) at both
\* parties: the integer the garbler decodes is the plaintext output of the
\* circuit on the garbler's input x and the evaluator's input y, and both
\* parties return its split.
C2_Correctness ==
    BothReturnedNil =>
        LET out == PlainResult(GCirc, cfg.gIn, cfg.eIn)
        IN /\ cfg.gCirc = cfg.eCirc
           /\ g.result = out
           /\ g.gres = Split(GCirc, out)
           /\ e.eres = Split(GCirc, out)

\* a completed session of the circuit with a two-bit evaluator input whose
\* bits differ, with output 3
C2_Witness ==
    BothReturnedNil /\ cfg.gCirc = 3 /\ cfg.eIn \in {1, 2} /\ g.result = 3

\* C3: the evaluator sends as result label i the label it holds on wire
\* NumWires - Outputs.Size() + i; the garbler decodes label i against the
\* zero-label of that wire; bit i of the garbler's result is the logical
\* value of the label the evaluator holds on that wire.
C3_ResultLabelRoundTrip ==
    /\ \A n \in Posted("E", "result labels") :
         LET circ == Circuits[e.circ]
             base == circ.NumWires - OutputsSize(circ)
         IN /\ Len(relay["E"][n].val) = OutputsSize(circ)
            /\ \A i \in 0 .. (OutputsSize(circ) - 1) :
                 relay["E"][n].val[i + 1] = e.wires[base + i + 1]
    /\ (g.returned /\ g.gerr = Nil) =>
         LET circ == Circuits[g.circ]
             base == circ.NumWires - OutputsSize(circ)
         IN \A i \in 0 .. (OutputsSize(circ) - 1) :
              /\ g.labels[i + 1] = e.wires[base + i + 1]
              /\ BitFromLabel(g.garbled.Wires[base + i + 1], g.garbled.Delta,
                              e.wires[base + i + 1]) =
                   [err |-> Nil, bit |-> Bit(g.result, i)]

\* the garbler has decoded two result labels to different bits
C3_Witness == g.returned /\ g.gerr = Nil /\ g.circ = 2 /\ g.result = 2

\* C4: the n-th receive of a party asks for sequence n and for the topic and
\* sequence of the peer's n-th send; a receive that succeeds does so after
\* the peer's n-th send, and the relay holds exactly one message under its
\* address.
C4_ReceiveMatchesSend ==
    \A p \in Parties :
      LET R == CallsOf(p, {"recv"})
          S == CallsOf(Peer(p), {"send"})
      IN \A n \in 1 .. Len(R) :
           /\ R[n].tag.seq = n
           /\ R[n].tag.topic = R[n].topic
           /\ n <= Len(S) =>
                /\ S[n].tag = R[n].tag
                /\ S[n].topic = R[n].topic
           /\ R[n].err = Nil =>
                /\ n <= Len(S)
                /\ Cardinality({m \in 1 .. Len(relay[Peer(p)]) :
                                   relay[Peer(p)][m].tag = R[n].tag}) = 1

\* all seven receives of the evaluator and all four of the garbler succeeded
C4_Witness ==
    /\ Len(CallsOf("E", {"recv"})) = 7
    /\ Len(CallsOf("G", {"recv"})) = 4
    /\ \A p \in Parties : \A n \in 1 .. Len(calls[p]) : calls[p][n].err = Nil

\* the address the k-th send of party p must carry, and the address the k-th
\* receive must ask for
ExpectedSend(p, topic, k) ==
    [sid |-> SessionId, topic |-> topic,
     src |-> IF p = "G" THEN 1 ELSE 2, dst |-> IF p = "G" THEN 2 ELSE 1, seq |-> k]
ExpectedRecv(p, topic, k) ==
    [sid |-> SessionId, topic |-> topic,
     src |-> IF p = "G" THEN 2 ELSE 1, dst |-> IF p = "G" THEN 1 ELSE 2, seq |-> k]

\* every send so far carries its address, every receive asks for its
\* address, and the counters count the calls
C5_Tags ==
    \A p \in Parties :
      LET S == CallsOf(p, {"send", "regsend"})
          R == CallsOf(p, {"recv", "regrecv"})
      IN /\ \A k \in 1 .. Len(S) : S[k].tag = ExpectedSend(p, S[k].topic, k)
         /\ \A k \in 1 .. Len(R) : R[k].tag = ExpectedRecv(p, R[k].topic, k)
         /\ pc[p] = "Conn" =>
              /\ conn[p].je = (IF p = "G" THEN 1 ELSE 2)
              /\ conn[p].tu = (IF p = "G" THEN 2 ELSE 1)
              /\ conn[p].nsend = Len(S)
              /\ conn[p].nrecv = Len(R)

\* no step lowers a counter or changes (je, tu) of a connection NewConn made
C5_Step ==
    \A p \in Parties :
      /\ conn'[p].nsend >= conn[p].nsend
      /\ conn'[p].nrecv >= conn[p].nrecv
      /\ conn[p] # NoConn => (conn'[p].je = conn[p].je /\ conn'[p].tu = conn[p].tu)

\* C5: on a connection the k-th send (DirectSend or RegisterSend) is tagged
\* (session, topic, src = je, dst = tu, seq = k) and the k-th receive
\* (DirectRecv or RegisterRecv) asks for (session, topic, src = tu, dst = je,
\* seq = k), counting from 1; (je, tu) is (1, 2) for the garbler and (2, 1)
\* for the evaluator and never changes after NewConn; nsend and nrecv never
\* decrease.
C5_ConnectionTags == []C5_Tags /\ [][C5_Step]_vars

\* a connection on which a RegisterSend followed a DirectSend and a
\* receive was made as well
C5_Witness ==
    \E p \in Parties :
      /\ Len(calls[p]) = 3
      /\ calls[p][1].op = "send" /\ calls[p][2].op = "regsend"
      /\ calls[p][2].tag.seq = 2
      /\ calls[p][3].op \in {"recv", "regrecv"}

\* the topics of the CO-OT sender and of the result
AfterQueryTopics == {"setup.Ax,Ay", "ot ciphertexts", "result"}
\* the garbler received an OT query that does not name the evaluator's wires
MismatchedQueryReceived ==
    /\ \E n \in 1 .. Len(calls["G"]) :
         calls["G"][n].topic = "ot query" /\ calls["G"][n].err = Nil
    /\ \/ g.query.Offset # InputBits(Circuits[g.circ], 0)
       \/ g.query.Count # InputBits(Circuits[g.circ], 1)

\* C6: when the OT query the garbler receives has an offset other than the
\* width of input group 0 or a count other than the width of input group 1,
\* Garbler returns an error and sends no "setup.Ax,Ay", no "ot ciphertexts"
\* and no "result"; the query that names both widths is not rejected.
C6_QueryRejected ==
    /\ MismatchedQueryReceived =>
         /\ g.returned /\ g.gerr # Nil /\ g.ret.err # Nil
         /\ pc["G"] = "Done"
         /\ \A t \in AfterQueryTopics : ~Called("G", t)
    /\ g.gerr = NewErr("peer can't OT wires") => MismatchedQueryReceived

\* the offset agrees and only the count differs
C6_Witness ==
    /\ MismatchedQueryReceived
    /\ g.query.Offset = InputBits(Circuits[g.circ], 0)
    /\ g.returned

\* C7: the wires whose label pairs the garbler hands to the OT sender are
\* exactly the evaluator's input wires [width0, width0 + width1): one pair
\* per such wire, in order, and no other wire.
C7_OtWires ==
    Called("G", "setup.Ax,Ay") =>
        LET circ == Circuits[g.circ]
            w0 == InputBits(circ, 0)
            w1 == InputBits(circ, 1)
        IN /\ g.otLo = w0 /\ g.otHi = w0 + w1
           /\ Len(g.otWires) = w1
           /\ \A i \in 1 .. w1 : g.otWires[i] = g.garbled.Wires[w0 + i]
           /\ Called("G", "ot ciphertexts") => Len(g.ct) = w1

\* the OT sender ran over two evaluator wires behind one garbler wire
C7_Witness ==
    Called("G", "ot ciphertexts") /\ g.circ = 3 /\ Len(g.ct) = 2 /\ g.otLo = 1

\* C8: the "inputs" message holds exactly width0 labels, the i-th being
\* LabelForBit of wire i's zero-label and bit i of the garbler's input: the
\* zero-label for a 0 bit, the zero-label xor Delta for a 1 bit.
C8_InputLabels ==
    /\ \A n \in Posted("G", "inputs") :
         LET circ == Circuits[g.circ]
             val == relay["G"][n].val
         IN /\ Len(val) = InputBits(circ, 0)
            /\ \A i \in 0 .. (InputBits(circ, 0) - 1) :
                 /\ val[i + 1] = LabelForBit(g.garbled.Wires[i + 1], g.garbled.Delta,
                                             Bit(cfg.gIn, i))
                 /\ val[i + 1] = IF Bit(cfg.gIn, i) = 1
                                 THEN Xor(g.garbled.Wires[i + 1], g.garbled.Delta)
                                 ELSE g.garbled.Wires[i + 1]
    /\ Called("G", "inputs") => Len(g.inputs) = InputBits(Circuits[g.circ], 0)

\* the garbler of the circuit with two garbler wires sent the labels of the
\* input bits 0 and 1
C8_Witness == Posted("G", "inputs") # {} /\ g.circ = 2 /\ cfg.gIn = 2

\* the topics of the calls Garbler makes itself (G1, G2, G3, G4, G6, G7)
GarblerTopics ==
    {"ephemeral key", "garbled gates", "inputs", "ot query", "result labels", "result"}
\* the topics of the calls CO.Send makes for the garbler
CoSendTopics == {"setup.Ax,Ay", "co choices", "ot ciphertexts"}

\* C9: every DirectSend or DirectRecv of Garbler itself (G1, G2, G3, G4, G6,
\* G7) that fails is the garbler's last call, and Garbler has returned a
\* non-nil error.
C9_GarblerPropagates ==
    \A n \in 1 .. Len(calls["G"]) :
      (calls["G"][n].topic \in GarblerTopics /\ calls["G"][n].err # Nil) =>
          /\ n = Len(calls["G"])
          /\ pc["G"] = "Done"
          /\ g.returned /\ g.gerr # Nil

\* C10: every DirectSend or DirectRecv of Evaluator (E1 - E7, those of
\* CO.Receive included) that fails is the evaluator's last call, Evaluator
\* has returned a non-nil error and the driver returns an error and no
\* result; every call of CO.Send that fails is the garbler's last call and
\* Garbler has returned a non-nil error.
C10_EvaluatorPropagates ==
    /\ \A n \in 1 .. Len(calls["E"]) :
         (calls["E"][n].topic # "input sizes" /\ calls["E"][n].err # Nil) =>
             /\ n = Len(calls["E"])
             /\ pc["E"] = "Done"
             /\ e.returned /\ e.eerr # Nil
             /\ e.ret.err # Nil /\ e.ret.val = <<>>
    /\ \A n \in 1 .. Len(calls["G"]) :
         (calls["G"][n].topic \in CoSendTopics /\ calls["G"][n].err # Nil) =>
             /\ n = Len(calls["G"])
             /\ pc["G"] = "Done"
             /\ g.returned /\ g.gerr # Nil

\* CO.Send failed to send the ciphertexts and CO.Receive met EOF waiting
\* for them
C10_Witness ==
    /\ \E n \in 1 .. Len(calls["G"]) :
         calls["G"][n].topic = "ot ciphertexts" /\ calls["G"][n].err # Nil
    /\ \E n \in 1 .. Len(calls["E"]) :
         calls["E"][n].topic = "ot ciphertexts" /\ calls["E"][n].err = EOF
    /\ e.ret.err # Nil

\* the driver of party p is over: it returned, or it panicked
DriverOver(p) == pc[p] \in {"Done", "Panic"}

\* C11: every relay connection a driver opened, the one NewConn opens before
\* the session id is set included, has been closed when the driver is over,
\* on the success path and on every error path.
C11_ConnectionsClosed ==
    \A p \in Parties :
      (DriverOver(p) /\ conn[p].opens > 0) => conn[p].closes > 0

\* the width vector both drivers should hand to loadCircuit: slot 0 the
\* garbler's argument widths, slot 1 the evaluator's
AgreedInputSizes == <<MyInputSizes(GCirc, 0), MyInputSizes(ECirc, 1)>>

\* C12: after the "input sizes" exchange the garbler and the evaluator pass
\* the same per-party width vector to the circuit loader, slot 0 holding the
\* garbler's argument widths and slot 1 the evaluator's.
C12_SameInputSizes ==
    /\ g.circ # 0 => g.inputSizes = AgreedInputSizes
    /\ e.circ # 0 => e.inputSizes = AgreedInputSizes
    /\ (g.circ # 0 /\ e.circ # 0) => g.inputSizes = e.inputSizes

\* C13: in both drivers the "input sizes" send and receive come before any
\* G1-G7 / E1-E7 message: a party's first call is its send of "input sizes"
\* with sequence 1, its second call is its receive of "input sizes" with
\* sequence 1, every later call follows the success of both, and no
\* "ephemeral key" is sent or requested earlier.
C13_SizesFirst ==
    \A p \in Parties :
      /\ Len(calls[p]) >= 1 =>
           /\ calls[p][1].op = "send" /\ calls[p][1].topic = "input sizes"
           /\ calls[p][1].tag.seq = 1
      /\ Len(calls[p]) >= 2 =>
           /\ calls[p][2].op = "recv" /\ calls[p][2].topic = "input sizes"
           /\ calls[p][2].tag.seq = 1
           /\ calls[p][1].err = Nil
      /\ \A n \in 3 .. Len(calls[p]) :
           /\ calls[p][1].err = Nil /\ calls[p][2].err = Nil
           /\ calls[p][n].topic # "input sizes"
      /\ \A n \in 1 .. Len(calls[p]) :
           calls[p][n].topic = "ephemeral key" => n = 3

\* both parties exchanged their sizes, then the key was sent and requested
C13_Witness ==
    /\ Len(calls["G"]) >= 3 /\ calls["G"][3].topic = "ephemeral key"
    /\ Len(calls["E"]) >= 3 /\ calls["E"][3].topic = "ephemeral key"

\* the driver of party p loaded a circuit that is not for two parties
LoadedWrongParties(p) ==
    IF p = "G" THEN g.circ # 0 /\ Len(Circuits[g.circ].Inputs) # 2
    ELSE e.circ # 0 /\ Len(Circuits[e.circ].Inputs) # 2
\* what the driver of party p returned
DriverRet(p) == IF p = "G" THEN g.ret ELSE e.ret

\* C14: when the circuit a driver loaded does not have exactly 2 input
\* groups, the driver returns an error and no result, and it sends and
\* requests nothing but "input sizes".
C14_WrongParties ==
    \A p \in Parties :
      LoadedWrongParties(p) =>
          /\ pc[p] = "Done"
          /\ DriverRet(p).err # Nil /\ DriverRet(p).val = <<>>
          /\ Len(calls[p]) = 2
          /\ \A n \in 1 .. Len(calls[p]) : calls[p][n].topic = "input sizes"

\* both drivers loaded the three-party circuit and returned the error
C14_Witness ==
    /\ LoadedWrongParties("G") /\ g.ret.err = NewErr("parties")
    /\ LoadedWrongParties("E") /\ e.ret.err = NewErr("parties")

\* both points of the transfer arrived as they were sent
HonestTransfer == ot.gotA = ot.sender.A /\ ot.gotB = ot.receiver.B
\* the message the receiver selected
Selected == IF ot.bit = 0 THEN ot.m0 ELSE ot.m1

\* C15: for every sender scalar a, receiver scalar b, selection bit c and
\* pair (m0, m1), after ReceiveA(A), ReceiveB(B) and ReceiveE(e0, e1) with
\* the points delivered as sent the receiver's output is m_c, and the mask
\* the receiver derives from b*A is the sender's mask0 for c = 0 and mask1
\* for c = 1.
C15_OtCorrect ==
    (ot.step = "Done" /\ HonestTransfer) =>
        /\ ot.out = Selected
        /\ DeriveMask(ot.receiver.As, 0) =
             (IF ot.bit = 0 THEN Xor(ot.ct.e0, ot.m0) ELSE Xor(ot.ct.e1, ot.m1))

\* a completed transfer of the second of two different messages
C15_Witness ==
    /\ ot.step = "Done" /\ HonestTransfer
    /\ ot.bit = 1 /\ ot.m0 # ot.m1 /\ ot.a # 0 /\ ot.b # 0
    /\ ot.out = ot.m1

\* a received point that is not on the curve or is the identity
InvalidPoint(pt) == pt = Identity \/ ~Operable(pt)

\* C16: a receiver handed a setup point A that is not on the curve or is the
\* identity (ReceiveA), and a sender handed such a point B (ReceiveB), report
\* an error and derive no mask or ciphertext from the point.
C16_InvalidPointRejected ==
    /\ ("gotA" \in DOMAIN ot /\ InvalidPoint(ot.gotA)) =>
         (ot.step = "Error" /\ "receiver" \notin DOMAIN ot)
    /\ ("gotB" \in DOMAIN ot /\ InvalidPoint(ot.gotB)) =>
         (ot.step = "Error" /\ "ct" \notin DOMAIN ot)

\* the calls of a party's OT batch, in the order they were made
CoCalls(p) == SelectSeq(calls[p], LAMBDA c : c.topic \in CoSendTopics)
\* the calls CO.Send and CO.Receive make for one batch
CoSendCalls ==
    <<[op |-> "send", topic |-> "setup.Ax,Ay"],
      [op |-> "recv", topic |-> "co choices"],
      [op |-> "send", topic |-> "ot ciphertexts"]>>
CoReceiveCalls ==
    <<[op |-> "recv", topic |-> "setup.Ax,Ay"],
      [op |-> "send", topic |-> "co choices"],
      [op |-> "recv", topic |-> "ot ciphertexts"]>>
CoBatch(p) == IF p = "G" THEN CoSendCalls ELSE CoReceiveCalls
\* the number of calls of one kind among the first n calls of a party
OpsUpTo(p, op, n) == Cardinality({i \in 1 .. n : calls[p][i].op = op})
\* the position of the batch's first call in a party's call log
BatchStart(p) == CHOOSE n \in 1 .. Len(calls[p]) : calls[p][n].topic = "setup.Ax,Ay"
\* the party has come out of its batch without an error
BatchDone(p) == pc[p] = (IF p = "G" THEN "G6" ELSE "E6")

\* C17: whatever the number of OT wires, the calls of a batch are, for
\* CO.Send, one send of "setup.Ax,Ay", one receive of "co choices" and one
\* send of "ot ciphertexts", and for CO.Receive one receive, one send and one
\* receive of the same topics, in that order and with no other call between
\* them; a completed batch has advanced the sender's counters by 2 sends and
\* 1 receive and the receiver's by 1 send and 2 receives.
C17_BatchMessages ==
    \A p \in Parties :
      LET co == CoCalls(p)
      IN /\ Len(co) <= 3
         /\ \A n \in 1 .. Len(co) :
              /\ co[n].op = CoBatch(p)[n].op
              /\ co[n].topic = CoBatch(p)[n].topic
              /\ calls[p][BatchStart(p) + n - 1] = co[n]
         /\ BatchDone(p) =>
              LET k == BatchStart(p)
              IN /\ Len(co) = 3
                 /\ Len(calls[p]) = k + 2
                 /\ conn[p].nsend =
                      OpsUpTo(p, "send", k - 1) + (IF p = "G" THEN 2 ELSE 1)
                 /\ conn[p].nrecv =
                      OpsUpTo(p, "recv", k - 1) + (IF p = "G" THEN 1 ELSE 2)

\* both parties have completed the batch of a circuit with two OT wires
C17_Witness ==
    /\ BatchDone("G") /\ pc["E"] \in {"E6", "E7", "Done"}
    /\ Len(g.otWires) = 2
    /\ Len(CoCalls("E")) = 3 /\ CoCalls("E")[3].err = Nil
    /\ conn["G"].nsend = 6 /\ conn["G"].nrecv = 3

\* the points B a receiver with selection bit c can send for the setup point A
ChoicePoints(c, A) == {ReceiverReceiveA(c, b, A).B : b \in Scalars}
\* the sender's pair with the message the receiver did not select replaced
OtherPair(m) ==
    IF ot.bit = 0 THEN [m0 |-> ot.m0, m1 |-> m] ELSE [m0 |-> m, m1 |-> ot.m1]
\* what ReceiveE returns when the sender holds the pair pr instead
OutputFor(pr) ==
    ReceiverReceiveE(ot.receiver,
                     SenderReceiveB(SenderNewTransfer(ot.a, pr.m0, pr.m1), ot.gotB))

\* C18: for the setup point A of a transfer the points B a receiver can send
\* with c = 0 are the points it can send with c = 1, so B does not determine
\* c (the B a receiver sent is one a receiver with the other bit can send);
\* the receiver's transfer, and with it the mask it derives from b*A, is
\* determined by c, b and A alone, and the receiver's output is the same
\* whatever message the sender holds as m_{1-c}.
C18_Oblivious ==
    /\ "sender" \in DOMAIN ot =>
         ChoicePoints(0, ot.sender.A) = ChoicePoints(1, ot.sender.A)
    /\ ("receiver" \in DOMAIN ot /\ Operable(ot.gotA)) =>
         /\ ot.receiver.B \in ChoicePoints(1 - ot.bit, ot.gotA)
         /\ ot.receiver = ReceiverReceiveA(ot.bit, ot.b, ot.gotA)
    /\ (ot.step = "Done" /\ Operable(ot.gotB)) =>
         \A m \in Labels : OutputFor(OtherPair(m)) = ot.out

\* a completed transfer of the first of two different messages, whose B a
\* receiver selecting the second could have sent as well
C18_Witness ==
    /\ ot.step = "Done" /\ HonestTransfer
    /\ ot.bit = 0 /\ ot.m0 # ot.m1 /\ ot.a # 0
    /\ ot.out = ot.m0
    /\ ot.receiver.B \in ChoicePoints(1, ot.sender.A)
    /\ \E m \in Labels : m # ot.m1 /\ OutputFor(OtherPair(m)) = ot.out

\* the protocol function of party p (Garbler, Evaluator) returned a result
\* and no error to its driver
ProtocolDone(p) ==
    IF p = "G" THEN g.returned /\ g.gerr = Nil ELSE e.returned /\ e.eerr = Nil
\* the circuit file of party p's driver and the result it was handed
DriverFile(p) == IF p = "G" THEN g.circ ELSE e.circ
DriverRes(p) == IF p = "G" THEN g.gres ELSE e.eres
\* the bytes getResult hands to party p's driver
DriverVal(p) == GetResult(Circuits[DriverFile(p)], DriverRes(p))

\* C19: in garbler_fn and in evaluator_fn alike, when the first byte of the
\* result is 0x01 the driver returns the bytes after it and no error, and
\* when the first byte is 0x00 (and a second byte follows) the driver returns
\* no payload and an error that carries the second byte as the MPCL error
\* code together with the circuit file.
C19_Discriminator ==
    \A p \in Parties :
      ProtocolDone(p) =>
        /\ DriverVal(p)[1] = 1 =>
             /\ pc[p] = "Done"
             /\ DriverRet(p) = [err |-> Nil, val |-> Tail(DriverVal(p))]
        /\ (DriverVal(p)[1] = 0 /\ Len(DriverVal(p)) >= 2) =>
             /\ pc[p] = "Done"
             /\ DriverRet(p).val = <<>>
             /\ DriverRet(p).err.cause = "MPCL inner error"
             /\ DriverRet(p).err.code = DriverVal(p)[2]
             /\ DriverRet(p).err.file = DriverFile(p)

\* both drivers return the MPCL error of code 1 for the same circuit file
C19_Witness ==
    /\ ProtocolDone("G") /\ ProtocolDone("E")
    /\ DriverVal("G") = <<0, 1>> /\ DriverVal("E") = <<0, 1>>
    /\ g.ret.err = MpclErr(1, 3) /\ e.ret.err = MpclErr(1, 3)
    /\ g.ret.val = <<>> /\ e.ret.val = <<>>

\* party p's driver came back to main without an error
SessionSucceeded(p) == pc[p] = "Done" /\ DriverRet(p).err = Nil

\* C20: the executable exits with code 0 when the session succeeds and
\* with a non-zero code when the driver reports an error, whatever the
\* inputs.
C20_ExitCode ==
    \A p \in Parties :
      /\ SessionSucceeded(p) => ExitCode(p) = 0
      /\ (pc[p] = "Done" /\ DriverRet(p).err # Nil) => ExitCode(p) # 0

\* the relay answered the Outbox call with other than exactly one message
MalformedResponse == rpc.resp.err = Nil /\ Len(rpc.resp.Values) # 1

\* C21: whenever the relay's Outbox response does not contain exactly one
\* message, DirectRecv returns a non-nil error and the caller's output
\* object is not treated as received.
C21_MalformedResponse ==
    (rpc.step = "Returned" /\ MalformedResponse) =>
        (rpc.err # Nil /\ ~rpc.received)

\* the messages of party p that the relay holds and the peer has not received
Unreceived(p) ==
    {n \in 1 .. Len(relay[p]) :
       ~\E k \in 1 .. Len(calls[Peer(p)]) :
          /\ calls[Peer(p)][k].op = "recv"
          /\ calls[Peer(p)][k].err = Nil
          /\ calls[Peer(p)][k].tag = relay[p][n].tag}
\* the messages the garbler sends without a receive between them: its input
\* sizes before the evaluator has asked for them, then G1, G2 and G3
OpeningTopics == {"input sizes", "ephemeral key", "garbled gates", "inputs"}

\* C22 as stated: at every point of a session a party has at most one sent
\* message that its peer has not yet received.
C22_OneInFlight == \A p \in Parties : Cardinality(Unreceived(p)) <= 1

\* C22 as the drivers behave: the evaluator has at most one sent message that
\* the garbler has not yet received; the garbler has at most one outside its
\* opening messages (input sizes, ephemeral key, garbled gates, inputs), of
\* which up to four can be waiting at the relay, one per topic.
C22_InFlight ==
    /\ Cardinality(Unreceived("E")) <= 1
    /\ Cardinality({n \in Unreceived("G") : relay["G"][n].tag.topic \notin OpeningTopics}) <= 1
    /\ \A t \in OpeningTopics :
         Cardinality({n \in Unreceived("G") : relay["G"][n].tag.topic = t}) <= 1
    /\ \A n \in Unreceived("G") :
         relay["G"][n].tag.topic \notin OpeningTopics => Cardinality(Unreceived("G")) = 1

\* the garbler's four opening messages wait at the relay while the evaluator
\* has not yet received any of them
C22_Witness ==
    /\ Cardinality(Unreceived("G")) = 4
    /\ pc["G"] = "G4" /\ pc["E"] = "RecvSizes"

\* the steps a driver can be at before it is over
DriverSteps(p) ==
    {"NewConn", "SendSizes", "RecvSizes"} \cup
    (IF p = "G" THEN {"G1", "G2", "G3", "G4", "G5a", "G5b", "G5c", "G6", "G7"}
     ELSE {"E1", "E2", "E3", "E4", "E5a", "E5b", "E5c", "E6", "E7"})
\* the topic a driver's next step waits for, at the steps that are receives
RecvTopic(p) ==
    IF p = "G"
    THEN [RecvSizes |-> "input sizes", G4 |-> "ot query", G5b |-> "co choices",
          G6 |-> "result labels"]
    ELSE [RecvSizes |-> "input sizes", E1 |-> "ephemeral key", E2 |-> "garbled gates",
          E3 |-> "inputs", E5a |-> "setup.Ax,Ay", E5c |-> "ot ciphertexts",
          E7 |-> "result"]
\* party p's driver has a next step and nothing holds it back: a receive
\* has an outcome whether the message is there or not
CanStep(p) ==
    /\ pc[p] \in DriverSteps(p)
    /\ pc[p] \in DOMAIN RecvTopic(p) =>
         RecvOutcomes(p, RecvTag(conn[p], RecvTopic(p)[pc[p]])) # {}

\* C23: no driver blocks, and a driver that has come to its end, whatever
\* its peer did or failed to do, has returned a result or an error.
C23_DriversReturn == \A p \in Parties : ~CanStep(p) => pc[p] = "Done"

\* the call party p makes in this step, if it makes one
NewCall(p) == calls'[p][Len(calls'[p])]
MakesCall(p, ops) == Len(calls'[p]) = Len(calls[p]) + 1 /\ NewCall(p).op \in ops

\* a send moves nsend by one and leaves nrecv alone, a receive the other
\* way round, with any outcome of the call
C24_Step ==
    \A p \in Parties :
      /\ MakesCall(p, {"send", "regsend"}) =>
           /\ conn'[p].nrecv = conn[p].nrecv
           /\ conn'[p].nsend = conn[p].nsend + 1
      /\ MakesCall(p, {"recv", "regrecv"}) =>
           /\ conn'[p].nsend = conn[p].nsend
           /\ conn'[p].nrecv = conn[p].nrecv + 1

\* C24: a send (DirectSend, RegisterSend) leaves nrecv unchanged and a
\* receive (DirectRecv, RegisterRecv) leaves nsend unchanged, whether the
\* call succeeds or fails.
C24_IndependentCounters == [][C24_Step]_vars

\* a connection after a failed DirectRecv, a RegisterRecv and a failed
\* DirectSend: two receives and one send counted
C24_Witness ==
    \E p \in Parties :
      /\ Len(calls[p]) = 3
      /\ calls[p][1].op = "recv" /\ calls[p][1].err # Nil
      /\ calls[p][2].op = "regrecv"
      /\ calls[p][3].op = "send" /\ calls[p][3].err # Nil
      /\ conn[p].nsend = 1 /\ conn[p].nrecv = 2

\* the garbled circuit is the one Garble made, or none before Garble ran
C25_Garbled ==
    /\ g.garbles <= 1
    /\ g.garbles = 0 => g.garbled = NoGarbled
    /\ g.garbles = 1 => g.garbled = Garble(Circuits[g.circ], cfg.gSeed, g.key)
    /\ pc["G"] \in {"G2", "G3", "G4", "G5a", "G5b", "G5c", "G6", "G7"} => g.garbles = 1
    /\ (g.returned /\ g.gerr = Nil) => g.garbles = 1

\* once Garble has returned no step changes the garbled circuit or garbles again
C25_Step == g.garbles = 1 => (g.garbled' = g.garbled /\ g.garbles' = 1)

\* C25: Garble is invoked exactly once per Garbler call, and after it has
\* returned no step G1-G7, the CO-OT send over Wires[offset..offset+count]
\* included, modifies garbled.Gates or garbled.Wires.
C25_GarbledImmutable == []C25_Garbled /\ [][C25_Step]_vars

\* a Garbler call that went through an OT batch of two wires and returned
\* its result with the garbled circuit it started with
C25_Witness ==
    /\ g.returned /\ g.gerr = Nil /\ g.garbles = 1
    /\ Len(g.otWires) = 2 /\ Len(g.garbled.Gates) = 2
    /\ g.garbled = Garble(Circuits[g.circ], cfg.gSeed, g.key)

\* the calls that neither send nor receive
BufferOps == {"needspace", "flush", "fill"}

\* a step that is a call of NeedSpace, Flush or Fill returns nil, leaves the
\* connection as it was and puts nothing on the relay nor in the queues
C26_Step ==
    \A p \in Parties :
      MakesCall(p, BufferOps) =>
        /\ NewCall(p).err = Nil
        /\ conn'[p] = conn[p]
        /\ relay' = relay

C27_ExportedResult ==
    cgo.step = "Returned" =>
      /\ cgo.code = 0 =>
           /\ cgo.driver.err = Nil
           /\ cgo.out.ptr.kind = "heap"
           /\ cgo.out.ptr.bytes = cgo.driver.val
           /\ cgo.out.len = Len(cgo.driver.val)
      /\ cgo.driver.err # Nil => (cgo.code = -1 /\ cgo.out = cgo.before)

\* c_garbler_fn returned -1 on the MPCL error of its driver and left the
\* caller's two variables as they were
C27_Witness ==
    /\ cgo.step = "Returned"
    /\ cgo.fn = "c_garbler_fn"
    /\ cgo.driver.err.cause = "MPCL inner error"
    /\ cgo.code = -1
    /\ cgo.before = [ptr |-> CallerPtr, len |-> 3]
    /\ cgo.out = cgo.before

\* the positions of Evaluator and the topics of its calls, in program order
EvaluatorOrder == <<"E1", "E2", "E3", "E4", "E5a", "E5b", "E5c", "E6", "E7">>
EvaluatorTopics ==
    <<"ephemeral key", "garbled gates", "inputs", "ot query", "setup.Ax,Ay",
      "co choices", "ot ciphertexts", "result labels", "result">>
\* the calls Evaluator has made, the drivers' size exchange left out
EvaluatorCalls == SelectSeq(calls["E"], LAMBDA c : c.topic # "input sizes")

\* the calls made so far are the first ones of the program order, all but
\* the last one successful; evaluation has happened only after E1, E2, E3
\* and the whole OT receive succeeded, and "result labels" only after it
C28_Order ==
    /\ Len(EvaluatorCalls) <= Len(EvaluatorTopics)
    /\ \A n \in 1 .. Len(EvaluatorCalls) :
         /\ EvaluatorCalls[n].topic = EvaluatorTopics[n]
         /\ n < Len(EvaluatorCalls) => EvaluatorCalls[n].err = Nil
    /\ e.evaluated =>
         /\ Len(EvaluatorCalls) >= 7
         /\ \A n \in 1 .. 7 : EvaluatorCalls[n].err = Nil
    /\ Len(EvaluatorCalls) >= 8 => e.evaluated

\* Evaluator moves from a position to the next one of the program order or
\* returns, and evaluation happens in the step that leaves E6
C28_Step ==
    /\ \A i \in 1 .. Len(EvaluatorOrder) :
         pc["E"] = EvaluatorOrder[i] =>
           \/ pc'["E"] \in {EvaluatorOrder[i], "Done", "Panic"}
           \/ i < Len(EvaluatorOrder) /\ pc'["E"] = EvaluatorOrder[i + 1]
    /\ (e'.evaluated /\ ~e.evaluated) => pc["E"] = "E6"
    /\ (pc["E"] = "E6" /\ pc'["E"] = "E7") => e'.evaluated

\* C28: the evaluator evaluates the circuit only after it has successfully
\* received the ephemeral key (E1), the garbled gates (E2), the garbler's
\* input labels (E3) and completed the OT receive (E5); it sends "result
\* labels" only after evaluation returned without error; the steps occur in
\* the strict order E1, E2, E3, E4, E5, evaluate, E6, E7.
C28_EvaluatorOrder == []C28_Order /\ [][C28_Step]_vars

\* Evaluator went through all nine calls and returned its result
C28_Witness ==
    /\ Len(EvaluatorCalls) = 9
    /\ EvaluatorCalls[9].err = Nil
    /\ e.evaluated /\ e.returned /\ e.eerr = Nil

\* Evaluator is past E3: its receive of "inputs" succeeded and the padding
\* did not panic
PastE3 ==
    /\ Len(EvaluatorCalls) >= 3
    /\ EvaluatorCalls[3].err = Nil
    /\ ~(pc["E"] = "Panic" /\ Len(EvaluatorCalls) = 3)
\* the OT receive has written its labels
PastE5 == Len(EvaluatorCalls) >= 7 /\ EvaluatorCalls[7].err = Nil
\* the labels the garbler sent as "inputs"
InputsSent ==
    LET n == CHOOSE k \in 1 .. Len(relay["G"]) : relay["G"][k].tag.topic = "inputs"
    IN relay["G"][n].val

\* C29: after E3 the evaluator's wire array has exactly NumWires slots: the
\* garbler's input labels occupy slots [0, width0) in the order received,
\* and every other slot holds the zero padding value until the OT receive
\* writes slots [width0, width0 + width1) and evaluation writes the rest.
C29_WireArray ==
    PastE3 =>
      LET circ == Circuits[e.circ]
          width0 == InputBits(circ, 0)
          width1 == InputBits(circ, 1)
      IN /\ Len(e.wires) = circ.NumWires
         /\ Len(InputsSent) = width0
         /\ \A w \in 1 .. width0 : e.wires[w] = InputsSent[w]
         /\ ~PastE5 => \A w \in (width0 + 1) .. circ.NumWires : e.wires[w] = 0
         /\ ~e.evaluated =>
              \A w \in (width0 + width1 + 1) .. circ.NumWires : e.wires[w] = 0

\* Garbler has received the result labels (G6)
PastG6 ==
    \E n \in 1 .. Len(calls["G"]) :
      calls["G"][n].topic = "result labels" /\ calls["G"][n].err = Nil
\* the output wires whose received label is neither the zero-label nor the
\* one-label of the wire
InvalidResultLabels ==
    LET circ == Circuits[g.circ]
    IN {i \in 0 .. OutputsSize(circ) - 1 :
          /\ i + 1 <= Len(g.labels)
          /\ BitFromLabel(g.garbled.Wires[GarblerOutputWire(circ, i) + 1],
                          g.garbled.Delta, g.labels[i + 1]).err # Nil}

\* C30: if any received result label is neither the zero-label nor the
\* one-label of its output wire, Garbler returns an error, sends no "result"
\* message and returns no output values.
C30_InvalidLabel ==
    (PastG6 /\ InvalidResultLabels # {}) =>
      /\ ~Called("G", "result")
      /\ pc["G"] \in {"G7", "Done"}
      /\ pc["G"] = "Done" =>
           (g.returned /\ g.gerr # Nil /\ g.gres = <<>> /\ g.ret.err # Nil /\ g.ret.val = <<>>)

\* Garbler returned the error of an invalid result label
C30_Witness ==
    /\ PastG6 /\ InvalidResultLabels # {}
    /\ pc["G"] = "Done" /\ g.returned
    /\ g.gerr = Wrap(NewErr("invalid label"))
    /\ g.gres = <<>>

\* the garbler has garbled its circuit
Garbled == g.garbled # NoGarbled

\* C31: for every wire zero-label L0 of the garbled circuit and bit b,
\* BitFromLabel(L0, LabelForBit(L0, b)) = b; BitFromLabel(L0, L) is an error
\* for every L outside {L0, L0 xor Delta}; Delta has low bit 1, so the two
\* labels of a wire are distinct.
C31_LabelRoundTrip ==
    Garbled =>
      /\ g.garbled.Delta % 2 = 1
      /\ \A w \in 1 .. Len(g.garbled.Wires) :
           LET l0 == g.garbled.Wires[w]
               delta == g.garbled.Delta
           IN /\ \A b \in {0, 1} :
                   BitFromLabel(l0, delta, LabelForBit(l0, delta, b)) =
                       [err |-> Nil, bit |-> b]
              /\ \A l \in Labels \ {l0, Xor(l0, delta)} :
                   BitFromLabel(l0, delta, l).err # Nil
              /\ LabelForBit(l0, delta, 0) # LabelForBit(l0, delta, 1)

\* the garbler sent the one-label of its input wire at G3 and decoded bit 1
\* from the one-label of the output wire at G7
C31_Witness ==
    /\ Garbled /\ g.returned /\ g.gerr = Nil
    /\ g.circ = 1 /\ cfg.gIn = 1
    /\ g.labels = <<LabelForBit(g.garbled.Wires[3], g.garbled.Delta, 1)>>
    /\ g.result = 1

\* C32: Conn.Exchange returns a non-nil error whenever the messenger's
\* exchange round fails or times out, and nil only when it succeeded.
C32_ExchangeError ==
    \A p \in Parties : \A n \in 1 .. Len(calls[p]) :
      calls[p][n].op = "exchange" =>
        (calls[p][n].err = Nil <=> calls[p][n].merr = Nil)

\* the positions of a driver in program order, the end last
StepOrder(p) ==
    <<"NewConn", "SendSizes", "RecvSizes">> \o
    (IF p = "G" THEN <<"G1", "G2", "G3", "G4", "G5a", "G5b", "G5c", "G6", "G7">>
     ELSE EvaluatorOrder)
StepRank(p, at) ==
    IF at \in DriverSteps(p)
    THEN CHOOSE i \in 1 .. Len(StepOrder(p)) : StepOrder(p)[i] = at
    ELSE Len(StepOrder(p)) + 1
\* party p is still running, and is at a receive whose message is not there
Running(p) == pc[p] \in DriverSteps(p)
Waiting(p) ==
    /\ pc[p] \in DOMAIN RecvTopic(p)
    /\ ~HasMsg(p, RecvTag(conn[p], RecvTopic(p)[pc[p]]))
\* Garbler or Evaluator of party p has returned, and what it returned
Returned(p) == IF p = "G" THEN g.returned ELSE e.returned
ReturnedErr(p) == IF p = "G" THEN g.gerr ELSE e.eerr
\* an honest session on one circuit in which nothing has failed so far: no
\* call returned an error and no driver ended before its protocol function
FailureFree ==
    /\ cfg.gCirc = cfg.eCirc
    /\ \A p \in Parties : \A n \in 1 .. Len(calls[p]) : calls[p][n].err = Nil
    /\ \A p \in Parties : ~Running(p) => Returned(p)

\* the two parties never both wait, a waiting party's peer is still
\* running, and a party that is over has returned a result
Progressing ==
    /\ ~(Waiting("G") /\ Waiting("E"))
    /\ \A p \in Parties : Waiting(p) => Running(Peer(p))
    /\ \A p \in Parties : ~Running(p) => ReturnedErr(p) = Nil
\* the scalars the two parties draw for the OT give points that pass the
\* validation: neither the setup point A nor a choice point B is the identity
SoundPoints ==
    LET A == GenerateCOSenderSetup(cfg.gSeed).A
        ch == BuildCOChoices(cfg.eSeed, A, Flags(ECirc, cfg.eIn))
    IN /\ ValidPoint(A)
       /\ \A i \in 1 .. Len(ch.points) : ValidPoint(ch.points[i])

C33_Progress == (FailureFree /\ SoundPoints) => Progressing

\* every step of a party takes it further in its program
C33_Step == \A p \in Parties : pc'[p] # pc[p] => StepRank(p, pc'[p]) > StepRank(p, pc[p])

Address(tag) == <<tag.sid, tag.src, tag.dst, tag.seq>>
\* the sequence numbers and the addresses of party p's messages at the relay
RelaySeqs(p) == {relay[p][i].tag.seq : i \in 1 .. Len(relay[p])}
RelayAddresses(p) == {Address(relay[p][i].tag) : i \in 1 .. Len(relay[p])}

\* C34: in every run, also when sends fail, the messages of one party that
\* the relay accepted carry pairwise distinct sequence numbers that form the
\* gap-free prefix 1..k, and no address (session, src, dst, seq) is posted
\* more than once.
C34_RelaySequence ==
    \A p \in Parties :
      /\ RelaySeqs(p) = 1 .. Len(relay[p])
      /\ Cardinality(RelayAddresses(p)) = Len(relay[p])

\* the garbler's G3 send failed without reaching the relay, after three
\* accepted messages
C34_Witness ==
    /\ Len(relay["G"]) = 3
    /\ Len(calls["G"]) >= 5
    /\ calls["G"][5].topic = "inputs" /\ calls["G"][5].err # Nil
    /\ conn["G"].nsend = 4
    /\ \E p \in Parties : \E n \in 1 .. Len(calls[p]) :
         calls[p][n].op = "send" /\ calls[p][n].err # Nil /\ n < Len(calls[p])

\* a DirectSend or DirectRecv call advances its counter by one and goes to
\* the relay under the advanced counter, whatever the call then returns
C35_Step ==
    \A p \in Parties :
      /\ MakesCall(p, {"send"}) =>
           /\ conn'[p].nsend = conn[p].nsend + 1
           /\ NewCall(p).tag.seq = conn'[p].nsend
      /\ MakesCall(p, {"recv"}) =>
           /\ conn'[p].nrecv = conn[p].nrecv + 1
           /\ NewCall(p).tag.seq = conn'[p].nrecv
\* no increment is ever taken back: the counters count the calls made
C35_Counted ==
    \A p \in Parties :
      /\ conn[p].nsend = Len(CallsOf(p, {"send", "regsend"}))
      /\ conn[p].nrecv = Len(CallsOf(p, {"recv", "regrecv"}))

\* C35: Conn.DirectSend increments nsend by exactly 1 and Conn.DirectRecv
\* increments nrecv by exactly 1 on every call, before the relay is
\* contacted and whether the call then succeeds or returns an error; a
\* failed call is not rolled back.
C35_IncrementFirst == []C35_Counted /\ [][C35_Step]_vars

\* a connection with a failed send and a failed receive behind it, both
\* counted
C35_Witness ==
    \E p \in Parties :
      /\ Len(calls[p]) = 2
      /\ calls[p][1].op = "send" /\ calls[p][1].err # Nil
      /\ calls[p][2].op = "recv" /\ calls[p][2].err # Nil
      /\ conn[p].nsend = 1 /\ conn[p].nrecv = 1

\* C36: at G7 the garbler never reads a result label outside the received
\* list: when the list is shorter than Outputs.Size(), Garbler returns an
\* error without indexing past the end of the list.
C36_LabelsInRange ==
    (PastG6 /\ Len(g.labels) < OutputsSize(Circuits[g.circ])) =>
      \/ pc["G"] = "G7"
      \/ pc["G"] = "Done" /\ g.returned /\ g.gerr # Nil

\* the result slice CO.Receive is called with: wire slots start+1 .. end
SliceStart == InputBits(Circuits[e.circ], 0)
SliceEnd == SliceStart + InputBits(Circuits[e.circ], 1)
\* CO.Receive received the ciphertexts in this step, and what it decrypted
ReceivesCiphertexts ==
    /\ pc["E"] = "E5c"
    /\ MakesCall("E", {"recv"})
    /\ NewCall("E").err = Nil
Decrypted == DecryptCOCiphertexts(e.bundle, MsgVal("E", RecvTag(conn["E"], "ot ciphertexts")))

\* when the labels decrypted are not as many as the slots of the result
\* slice, CO.Receive returns an error and the wire array stays as it was;
\* when it succeeds, the slots of the slice hold the decrypted labels and
\* every other slot is as before
C37_Step ==
    ReceivesCiphertexts =>
      /\ (Decrypted.err = Nil /\ Len(Decrypted.labels) # SliceEnd - SliceStart) =>
           /\ e'.returned /\ e'.eerr # Nil
           /\ e'.wires = e.wires
      /\ pc'["E"] = "E6" =>
           /\ Decrypted.err = Nil
           /\ Len(e'.wires) = Len(e.wires)
           /\ \A w \in 1 .. Len(e.wires) :
                e'.wires[w] = IF w > SliceStart /\ w <= SliceEnd
                              THEN Decrypted.labels[w - SliceStart]
                              ELSE e.wires[w]

\* C37: when the number of labels decrypted by CO.Receive differs from the
\* number of result slots requested, CO.Receive returns an error and leaves
\* every result slot unmodified; on success exactly the slots
\* [width0, width0 + width1) are overwritten and no other slot is touched.
C37_ReceiveSlots == [][C37_Step]_vars

\* CO.Receive returned the count mismatch: two labels decrypted for the one
\* slot of the XOR circuit, the slot still zero
C37_Witness ==
    /\ e.returned /\ e.eerr = NewErr("label count mismatch")
    /\ e.circ = 1 /\ Len(e.bundle) = 2
    /\ e.wires[2] = 0 /\ e.wires[3] = 0

\* party p's driver obtained its connection and made a call on it
UsedConnection(p) == Len(calls[p]) > 0

\* C38: on every exit path of evaluator_fn and garbler_fn Close is invoked
\* exactly once on the connection; no path closes a closed connection.
C38_ClosedOnce ==
    \A p \in Parties : (DriverOver(p) /\ UsedConnection(p)) => conn[p].closes = 1

\* evaluator_fn has received the peer's input sizes
SizesReceived ==
    /\ Len(calls["E"]) >= 2
    /\ calls["E"][2].topic = "input sizes" /\ calls["E"][2].err = Nil

\* C39: the evaluator driver never uses an unloaded circuit: for every
\* "input sizes" list the peer may send, the empty list included, the
\* circuit has been loaded, or the driver has returned an error, before
\* circ.Inputs is read.
C39_CircuitLoaded ==
    (SizesReceived /\ e.circ = 0) => (pc["E"] = "Done" /\ e.ret.err # Nil)
====
